---- MODULE Spec2Model ----
(***************************************************************************)
(* Model of the code-recovery core of bp_analyzer: normalize_code, the     *)
(* stage-XML extractor, the language classifier, the VB pipeline and the   *)
(* per-stage part of run_details.                                          *)
(*                                                                         *)
(* A Python str is a sequence of one-character strings, so that every      *)
(* scan, strip, split and regular expression of the source is computed     *)
(* character by character as the source computes it.  Python's None is     *)
(* the value None below.                                                   *)
(***************************************************************************)
EXTENDS Integers, Sequences, FiniteSets, TLC

None == <<"<None>">>

(***************************************************************************)
(* Python str primitives                                                   *)
(***************************************************************************)
\* str.isspace() on the characters of the model's alphabets
IsSpace(c) == c \in {" ", "\t", "\n", "\r"}

\* [A-Za-z0-9_], the \w of re on the characters of the model's alphabets
IsWord(c) ==
  c \in {"a","b","c","d","e","f","g","h","i","j","k","l","m","n","o","p","q",
         "r","s","t","u","v","w","x","y","z",
         "A","B","C","D","E","F","G","H","I","J","K","L","M","N","O","P","Q",
         "R","S","T","U","V","W","X","Y","Z",
         "0","1","2","3","4","5","6","7","8","9","_"}

LowerOf ==
  [c \in {"A","B","C","D","E","F","G","H","I","J","K","L","M","N","O","P","Q",
          "R","S","T","U","V","W","X","Y","Z"} |->
     CASE c = "A" -> "a" [] c = "B" -> "b" [] c = "C" -> "c" [] c = "D" -> "d"
       [] c = "E" -> "e" [] c = "F" -> "f" [] c = "G" -> "g" [] c = "H" -> "h"
       [] c = "I" -> "i" [] c = "J" -> "j" [] c = "K" -> "k" [] c = "L" -> "l"
       [] c = "M" -> "m" [] c = "N" -> "n" [] c = "O" -> "o" [] c = "P" -> "p"
       [] c = "Q" -> "q" [] c = "R" -> "r" [] c = "S" -> "s" [] c = "T" -> "t"
       [] c = "U" -> "u" [] c = "V" -> "v" [] c = "W" -> "w" [] c = "X" -> "x"
       [] c = "Y" -> "y" [] c = "Z" -> "z"]

LowerChar(c) == IF c \in DOMAIN LowerOf THEN LowerOf[c] ELSE c

\* str.lower()
Lower(s) == [i \in 1..Len(s) |-> LowerChar(s[i])]

SetMax(S) == CHOOSE x \in S : \A y \in S : y <= x
SetMin(S) == CHOOSE x \in S : \A y \in S : x <= y

\* s[i:] with a 0-based index i, as Python slices
From(s, i) == SubSeq(s, i + 1, Len(s))

\* str.startswith(p, i) with a 0-based index i
StartsWithAt(s, p, i) ==
  /\ i + Len(p) <= Len(s)
  /\ \A k \in 1..Len(p) : s[i + k] = p[k]

StartsWith(s, p) == StartsWithAt(s, p, 0)

EndsWith(s, p) ==
  /\ Len(p) <= Len(s)
  /\ \A k \in 1..Len(p) : s[Len(s) - Len(p) + k] = p[k]

\* p in s
Contains(s, p) == \E i \in 0..Len(s) : StartsWithAt(s, p, i)

\* str.rstrip(), str.lstrip(), str.strip()
RStrip(s) ==
  LET keep == {i \in 1..Len(s) : ~IsSpace(s[i])}
  IN  IF keep = {} THEN <<>> ELSE SubSeq(s, 1, SetMax(keep))

LStrip(s) ==
  LET keep == {i \in 1..Len(s) : ~IsSpace(s[i])}
  IN  IF keep = {} THEN <<>> ELSE SubSeq(s, SetMin(keep), Len(s))

Strip(s) == LStrip(RStrip(s))

\* str.replace(old, new): leftmost non-overlapping occurrences, old non-empty
RECURSIVE Replace(_, _, _)
Replace(s, old, new) ==
  LET at == {i \in 0..(Len(s) - Len(old)) : StartsWithAt(s, old, i)}
  IN  IF at = {} THEN s
      ELSE SubSeq(s, 1, SetMin(at)) \o new
           \o Replace(From(s, SetMin(at) + Len(old)), old, new)

\* str.split(sep) for a one-character sep: always at least one field
RECURSIVE Split(_, _)
Split(s, sep) ==
  LET at == {i \in 1..Len(s) : s[i] = sep}
  IN  IF at = {} THEN <<s>>
      ELSE <<SubSeq(s, 1, SetMin(at) - 1)>> \o Split(From(s, SetMin(at)), sep)

\* sep.join(parts)
RECURSIVE Join(_, _)
Join(parts, sep) ==
  IF parts = <<>> THEN <<>>
  ELSE IF Len(parts) = 1 THEN parts[1]
  ELSE parts[1] \o sep \o Join(Tail(parts), sep)

\* the concatenation of a sequence of strings
Flatten(parts) == Join(parts, <<>>)

\* str.count(c) for a one-character c
Count(s, c) == Cardinality({i \in 1..Len(s) : s[i] = c})

\* (f(x) for x in xs)
MapSeq(F(_), xs) == [i \in 1..Len(xs) |-> F(xs[i])]

(***************************************************************************)
(* utils.normalize_code                                                    *)
(***************************************************************************)
\* the line-ending conversion placed after the per-line rstrip
normalize_code_late_cr(s) ==
  IF s = None \/ s = <<>> THEN <<>>
  ELSE LET s1 == Join(MapSeq(RStrip, Split(s, "\n")), <<"\n">>)
           s2 == Replace(Replace(s1, <<"\r", "\n">>, <<"\n">>), <<"\r">>, <<"\n">>)
       IN  Strip(s2)

normalize_code(s) ==
  IF s = None \/ s = <<>> THEN <<>>
  ELSE LET s1 == Replace(Replace(s, <<"\r", "\n">>, <<"\n">>), <<"\r">>, <<"\n">>)
           s2 == Join(MapSeq(RStrip, Split(s1, "\n")), <<"\n">>)
       IN  Strip(s2)

(***************************************************************************)
(* xml.etree.ElementTree on the documents of the model: elements with      *)
(* attributes, character data, the predefined entities, no character      *)
(* references, comments, CDATA sections or namespaces (the alphabets hold  *)
(* no '#', '!', '?' or ':' inside markup).  A parsed document is the       *)
(* sequence of its parse events in document order: find and the            *)
(* serializer visit the elements in that order.                            *)
(***************************************************************************)
IsDigit(c) == c \in {"0","1","2","3","4","5","6","7","8","9"}
IsNameStart(c) == IsWord(c) /\ ~IsDigit(c)
IsNameChar(c) == IsWord(c) \/ c \in {".", "-"}

\* the first 0-based index j >= i whose character fails P, or len(s)
SkipWhile(P(_), s, i) ==
  LET stop == {j \in i..(Len(s) - 1) : ~P(s[j + 1])}
  IN  IF stop = {} THEN Len(s) ELSE SetMin(stop)

ParseError == [ok |-> FALSE, exc |-> "ParseError"]

\* a start event carries elem.attrib as the <<name, value>> pairs in the
\* order of the tag
StartEv(tag, attrib) == [k |-> "start", v |-> tag, a |-> attrib]
EndEv(tag) == [k |-> "end", v |-> tag, a |-> <<>>]
TextEv(txt) == [k |-> "text", v |-> txt, a |-> <<>>]

\* the predefined entities and the characters they stand for
Entities ==
  << <<<<"a","m","p",";">>, "&">>,
     <<<<"l","t",";">>, "<">>,
     <<<<"g","t",";">>, ">">>,
     <<<<"q","u","o","t",";">>, "\"">>,
     <<<<"a","p","o","s",";">>, "'">> >>

RECURSIVE EntityLoop(_, _, _)

\* character data or an attribute value with its entity references
\* replaced, from 1-based position i; a '&' that starts no predefined
\* entity is not well-formed
EntityLoop(t, i, out) ==
  LET \* the entities whose name and ';' stand at 1-based position j of t
      EntitiesAt(j) ==
        {e \in 1..Len(Entities) :
           /\ j + Len(Entities[e][1]) - 1 <= Len(t)
           /\ SubSeq(t, j, j + Len(Entities[e][1]) - 1) = Entities[e][1]}
      EntityAt(hits) ==
        IF hits = {} THEN [ok |-> FALSE]
        ELSE EntityLoop(t, i + 1 + Len(Entities[SetMin(hits)][1]),
                        Append(out, Entities[SetMin(hits)][2]))
  IN  IF i > Len(t) THEN [ok |-> TRUE, v |-> out]
      ELSE IF t[i] # "&" THEN EntityLoop(t, i + 1, Append(out, t[i]))
      ELSE EntityAt(EntitiesAt(i + 1))

DecodeEntities(t) == EntityLoop(t, 1, <<>>)

\* an attribute value as expat reports it: line ends are read as LF, then
\* every LF and tab as a space
AttrValue(raw) ==
  Replace(Replace(Replace(Replace(raw, <<"\r", "\n">>, <<"\n">>),
                          <<"\r">>, <<"\n">>),
                  <<"\n">>, <<" ">>),
          <<"\t">>, <<" ">>)

AttrError == [ok |-> FALSE]

RECURSIVE AttrScan(_, _, _)

\* the rest of a start tag from 0-based position g0, behind the name or a
\* value: (S Name S? = S? value)* S? and then > or />
AttrScan(s, g0, attrib) ==
  LET Decoded(name, c, value) ==
        IF ~value.ok THEN AttrError
        ELSE AttrScan(s, c + 1, Append(attrib, <<name, value.v>>))
      \* the value between the quote at 0-based q and the same quote at c
      Closed(name, q, c) ==
        IF \/ c >= Len(s)
           \/ \E j \in (q + 2)..c : s[j] = "<"
           \/ \E i \in 1..Len(attrib) : attrib[i][1] = name
        THEN AttrError
        ELSE Decoded(name, c, DecodeEntities(AttrValue(SubSeq(s, q + 2, c))))
      \* the first 0-based index after q that holds the character s[q + 1]
      SameQuote(q) ==
        LET hits == {j \in (q + 1)..(Len(s) - 1) : s[j + 1] = s[q + 1]}
        IN  IF hits = {} THEN Len(s) ELSE SetMin(hits)
      Quoted(name, q) ==
        IF q >= Len(s) \/ s[q + 1] \notin {"'", "\""} THEN AttrError
        ELSE Closed(name, q, SameQuote(q))
      Eq(name, e) ==
        IF e >= Len(s) \/ s[e + 1] # "=" THEN AttrError
        ELSE Quoted(name, SkipWhile(IsSpace, s, e + 1))
      Named(n0, n1) ==
        IF n1 = n0 \/ ~IsNameStart(s[n0 + 1]) THEN AttrError
        ELSE Eq(SubSeq(s, n0 + 1, n1), SkipWhile(IsSpace, s, n1))
      \* g is the position behind the white space that follows g0
      After(g) ==
        IF g < Len(s) /\ s[g + 1] = ">"
        THEN [ok |-> TRUE, a |-> attrib, next |-> g + 1, empty |-> FALSE]
        ELSE IF g + 1 < Len(s) /\ s[g + 1] = "/" /\ s[g + 2] = ">"
        THEN [ok |-> TRUE, a |-> attrib, next |-> g + 2, empty |-> TRUE]
        ELSE IF g = g0 THEN AttrError
        ELSE Named(g, SkipWhile(IsNameChar, s, g))
  IN  After(SkipWhile(IsSpace, s, g0))

\* expat from 0-based position i, with the open elements in stack and the
\* events so far in ev; the document element is closed once ev is non-empty
\* and the stack is empty again
RECURSIVE XmlScan(_, _, _, _)
XmlScan(s, i, stack, ev) ==
  LET rootDone == ev # <<>> /\ stack = <<>>
  IN
  IF i >= Len(s)
  THEN IF rootDone THEN [ok |-> TRUE, ev |-> ev] ELSE ParseError
  ELSE IF s[i + 1] = "<"
  THEN IF i + 1 < Len(s) /\ s[i + 2] = "/"
       THEN \* an end tag </name S? >
            LET n0 == i + 2
                n1 == SkipWhile(IsNameChar, s, n0)
                name == SubSeq(s, n0 + 1, n1)
                g == SkipWhile(IsSpace, s, n1)
            IN  IF /\ n1 > n0
                   /\ IsNameStart(s[n0 + 1])
                   /\ g < Len(s)
                   /\ s[g + 1] = ">"
                   /\ stack # <<>>
                   /\ stack[Len(stack)] = name
                THEN XmlScan(s, g + 1, SubSeq(stack, 1, Len(stack) - 1),
                             Append(ev, EndEv(name)))
                ELSE ParseError
       ELSE \* a start tag <name attributes > or an empty element
            \* <name attributes />
            LET n0 == i + 1
                n1 == SkipWhile(IsNameChar, s, n0)
                name == SubSeq(s, n0 + 1, n1)
                t == AttrScan(s, n1, <<>>)
            IN  IF n1 = n0 \/ ~IsNameStart(s[n0 + 1]) \/ rootDone \/ ~t.ok
                THEN ParseError
                ELSE IF t.empty
                THEN XmlScan(s, t.next, stack,
                             ev \o <<StartEv(name, t.a), EndEv(name)>>)
                ELSE XmlScan(s, t.next, Append(stack, name),
                             Append(ev, StartEv(name, t.a)))
  ELSE \* character data up to the next '<'
       LET e == SkipWhile(LAMBDA c : c # "<", s, i)
           data == SubSeq(s, i + 1, e)
           \* XML end-of-line handling: CRLF and CR are read as LF
           chars == DecodeEntities(
                      Replace(Replace(data, <<"\r", "\n">>, <<"\n">>),
                              <<"\r">>, <<"\n">>))
       IN  IF stack = <<>>
           THEN IF Strip(data) = <<>> THEN XmlScan(s, e, stack, ev)
                ELSE ParseError
           ELSE IF ~chars.ok THEN ParseError
           ELSE XmlScan(s, e, stack, Append(ev, TextEv(chars.v)))

\* ET.fromstring
ET_fromstring(s) == XmlScan(s, 0, <<>>, <<>>)

\* the nesting level of the element that event p starts or ends (root: 0)
LevelAt(ev, p) ==
  LET starts == Cardinality({q \in 1..(p - 1) : ev[q].k = "start"})
      ends == Cardinality({q \in 1..(p - 1) : ev[q].k = "end"})
  IN  IF ev[p].k = "end" THEN starts - ends - 1 ELSE starts - ends

\* the text event that follows event p, or None: elem.text after a start
\* event, elem.tail after an end event
TextAfter(ev, p) ==
  IF p < Len(ev) /\ ev[p + 1].k = "text" THEN ev[p + 1].v ELSE None

\* len(elem) > 0 for the element started by event p
HasChildren(ev, p) ==
  LET q == IF TextAfter(ev, p) = None THEN p + 1 ELSE p + 2
  IN  q <= Len(ev) /\ ev[q].k = "start"

\* elem.find(".//tag") on the root: the event that starts the first
\* descendant named tag in document order, 0 when there is none
FindDescendant(ev, tag) ==
  LET hits == {p \in 2..Len(ev) : ev[p].k = "start" /\ ev[p].v = tag}
  IN  IF hits = {} THEN 0 ELSE SetMin(hits)

\* not t or not t.strip()
Blank(t) == t = None \/ Strip(t) = <<>>

\* "\n" + "  " * level
IndentStr(level) == <<"\n">> \o [j \in 1..(2 * level) |-> " "]

\* ElementTree._escape_cdata
EscapeCdata(t) ==
  Replace(Replace(Replace(t, <<"&">>, <<"&","a","m","p",";">>),
                  <<"<">>, <<"&","l","t",";">>),
          <<">">>, <<"&","g","t",";">>)

\* ElementTree._escape_attrib
EscapeAttrib(t) ==
  Replace(Replace(Replace(Replace(Replace(Replace(Replace(t,
    <<"&">>, <<"&","a","m","p",";">>),
    <<"<">>, <<"&","l","t",";">>),
    <<">">>, <<"&","g","t",";">>),
    <<"\"">>, <<"&","q","u","o","t",";">>),
    <<"\r">>, <<"&","#","1","3",";">>),
    <<"\n">>, <<"&","#","1","0",";">>),
    <<"\t">>, <<"&","#","0","9",";">>)

\* _serialize_xml: "<" + tag and then ' %s="%s"' for each item of elem.attrib
OpenTag(e) ==
  <<"<">> \o e.v \o
  Flatten([i \in 1..Len(e.a) |->
             <<" ">> \o e.a[i][1] \o <<"=", "\"">>
               \o EscapeAttrib(e.a[i][2]) \o <<"\"">>])

\* elem.get(key): the value of the attribute, None when it is absent
GetAttr(e, key) ==
  LET hits == {i \in 1..Len(e.a) : e.a[i][1] = key}
  IN  IF hits = {} THEN None ELSE e.a[SetMin(hits)][2]

\* indent_xml(root) followed by ET.tostring(root, encoding="unicode"): what
\* event p contributes to the serialization
XmlPiece(ev, p) ==
  LET e == ev[p]
      lvl == LevelAt(ev, p)
      txt == TextAfter(ev, p)
  IN  CASE e.k = "text" -> <<>>
        [] e.k = "start" ->
             IF ev[p + 1].k = "end"
             THEN OpenTag(e) \o <<" ", "/", ">">>
             ELSE OpenTag(e) \o <<">">> \o
                  (IF HasChildren(ev, p) /\ Blank(txt) THEN IndentStr(lvl + 1)
                   ELSE IF txt = None THEN <<>> ELSE EscapeCdata(txt))
        [] e.k = "end" ->
             (IF ev[p - 1].k = "start" THEN <<>>
              ELSE <<"<", "/">> \o e.v \o <<">">>) \o
             (IF lvl > 0
              THEN IF Blank(txt) THEN IndentStr(lvl) ELSE EscapeCdata(txt)
              ELSE IF HasChildren(ev, 1) THEN IndentStr(0) ELSE <<>>)

indent_and_tostring(ev) == Flatten([p \in 1..Len(ev) |-> XmlPiece(ev, p)])

\* pretty_print_xml once ET.fromstring has returned root or raised
PrettyParsed(xml_str, root) ==
  IF root.ok THEN indent_and_tostring(root.ev) ELSE xml_str

pretty_print_xml(xml_str) == PrettyParsed(xml_str, ET_fromstring(xml_str))

(***************************************************************************)
(* xml_common.extract_code_from_possible_stage_xml                         *)
(***************************************************************************)
code_candidates ==
  << <<"c","o","d","e">>,
     <<"c","o","d","e","t","e","x","t">>,
     <<"s","c","r","i","p","t">>,
     <<"b","o","d","y">>,
     <<"t","e","x","t">>,
     <<"v","b">>,
     <<"c","s","h","a","r","p">> >>

StageOpen == <<"<","s","t","a","g","e">>
StageClose == <<"<","/","s","t","a","g","e",">">>

Ret(code, kind) == [ok |-> TRUE, code |-> code, kind |-> kind]

\* n is not None and n.text and n.text.strip(), for n = stage.find(".//tag")
CandidateHasText(ev, tag) ==
  LET p == FindDescendant(ev, tag)
  IN  p # 0 /\ ~Blank(TextAfter(ev, p))

\* the return for a blob that parsed to the events ev, hits being the
\* candidates, by their place in code_candidates, whose first descendant
\* has text
ExtractFromCandidates(txt, ev, hits) ==
  IF hits # {}
  THEN Ret(normalize_code(TextAfter(ev, FindDescendant(ev,
             code_candidates[SetMin(hits)]))), "code")
  ELSE Ret(pretty_print_xml(txt), "xml_pretty")

\* a parse error that leaves the function instead of being handled
ExtractFromStageUnguarded(code_text, txt, stage) ==
  IF ~stage.ok THEN stage
  ELSE ExtractFromCandidates(txt, stage.ev,
         {j \in 1..Len(code_candidates) :
            CandidateHasText(stage.ev, code_candidates[j])})

\* the try block, stage being what ET.fromstring(txt) returned or raised
ExtractFromStage(code_text, txt, stage) ==
  IF ~stage.ok
  THEN \* except Exception
       Ret(normalize_code(code_text), "raw")
  ELSE ExtractFromCandidates(txt, stage.ev,
         {j \in 1..Len(code_candidates) :
            CandidateHasText(stage.ev, code_candidates[j])})

\* the function after txt = code_text.strip()
ExtractStripped(code_text, txt) ==
  IF StartsWith(txt, <<"<">>)
     /\ (Contains(txt, StageOpen) \/ Contains(txt, StageClose))
  THEN ExtractFromStage(code_text, txt, ET_fromstring(txt))
  ELSE Ret(normalize_code(code_text), "raw")

extract_code_from_possible_stage_xml(code_text) ==
  IF code_text = None \/ code_text = <<>> THEN Ret(<<>>, "raw")
  ELSE ExtractStripped(code_text, Strip(code_text))

(***************************************************************************)
(* The regular expressions of infer_language_from_code, matched as re      *)
(* matches them: positions are 0-based offsets into the string             *)
(***************************************************************************)
\* where '^' matches under re.MULTILINE: at 0 and after every line feed
LineStarts(s) == {i \in 0..Len(s) : i = 0 \/ s[i] = "\n"}

\* where a run \s* that starts at i can end
WsRunEnds(s, i) == {j \in i..Len(s) : \A k \in (i + 1)..j : IsSpace(s[k])}

\* \b at offset j
WordBoundaryAt(s, j) ==
  (j > 0 /\ IsWord(s[j])) # (j < Len(s) /\ IsWord(s[j + 1]))

\* the literal kw at offset j followed by \b
MatchWordAt(s, kw, j) ==
  StartsWithAt(s, kw, j) /\ WordBoundaryAt(s, j + Len(kw))

VbBlockWords ==
  { <<"d","i","m">>,
    <<"s","e","t">>,
    <<"b","y","v","a","l">>,
    <<"b","y","r","e","f">>,
    <<"e","n","d"," ","i","f">>,
    <<"e","n","d"," ","s","u","b">>,
    <<"e","n","d"," ","f","u","n","c","t","i","o","n">>,
    <<"s","e","l","e","c","t"," ","c","a","s","e">>,
    <<"e","n","d"," ","s","e","l","e","c","t">> }

CsModifierWords ==
  { <<"p","u","b","l","i","c">>,
    <<"p","r","i","v","a","t","e">>,
    <<"p","r","o","t","e","c","t","e","d">>,
    <<"i","n","t","e","r","n","a","l">> }

\* re.search(r"^\s*(dim|set|byval|byref|end if|end sub|end function|
\*              select case|end select)\b", cl, re.MULTILINE)
SearchVbBlockWord(cl) ==
  \E j \in 0..Len(cl) :
    /\ \E kw \in VbBlockWords : MatchWordAt(cl, kw, j)
    /\ \E i \in LineStarts(cl) : j \in WsRunEnds(cl, i)

\* re.search(r"^\s*if\s+.*\bthen\b", cl, re.MULTILINE)
SearchIfThen(cl) ==
  \E j \in 0..Len(cl) :
    /\ StartsWithAt(cl, <<"i","f">>, j)
    /\ \E i \in LineStarts(cl) : j \in WsRunEnds(cl, i)
    /\ \E b \in (j + 3)..Len(cl) :
         /\ MatchWordAt(cl, <<"t","h","e","n">>, b)
         /\ WordBoundaryAt(cl, b)
         /\ \E a \in (j + 3)..b :
              /\ a \in WsRunEnds(cl, j + 2)
              /\ \A k \in (a + 1)..b : cl[k] # "\n"

\* re.search(r"^\s*(using\s+\w+|public|private|protected|internal)\b",
\*           cl, re.MULTILINE)
SearchCsDeclaration(cl) ==
  \E j \in 0..Len(cl) :
    /\ \/ /\ StartsWithAt(cl, <<"u","s","i","n","g">>, j)
          /\ \E a \in (j + 6)..(Len(cl) - 1) :
               a \in WsRunEnds(cl, j + 5) /\ IsWord(cl[a + 1])
       \/ \E kw \in CsModifierWords : MatchWordAt(cl, kw, j)
    /\ \E i \in LineStarts(cl) : j \in WsRunEnds(cl, i)

(***************************************************************************)
(* xml_common.normalize_language and infer_language_from_code              *)
(***************************************************************************)
VB == <<"V","B">>
CSharp == <<"C","#">>
Unknown == <<"U","n","k","n","o","w","n">>

VbSynonyms ==
  { <<"v","b">>,
    <<"v","b",".","n","e","t">>,
    <<"v","i","s","u","a","l","b","a","s","i","c">>,
    <<"v","i","s","u","a","l"," ","b","a","s","i","c">>,
    <<"v","i","s","u","a","l","_","b","a","s","i","c">> }

CsSynonyms ==
  { <<"c","#">>,
    <<"c","s","h","a","r","p">>,
    <<"c","s">>,
    <<"c"," ","s","h","a","r","p">> }

\* language or ""
OrEmpty(s) == IF s = None THEN <<>> ELSE s

\* the synonyms compared without lower()
normalize_language_as_written(language) ==
  LET l == Strip(OrEmpty(language))
  IN  IF l \in VbSynonyms THEN VB
      ELSE IF l \in CsSynonyms THEN CSharp
      ELSE IF OrEmpty(language) = <<>> THEN Unknown
      ELSE language

normalize_language(language) ==
  LET l == Lower(Strip(OrEmpty(language)))
  IN  IF l \in VbSynonyms THEN VB
      ELSE IF l \in CsSynonyms THEN CSharp
      ELSE IF OrEmpty(language) = <<>> THEN Unknown
      ELSE language

\* the C# signals tried before the VB signals
infer_language_cs_first(language, code) ==
  LET lang == Strip(OrEmpty(language))
      c == OrEmpty(code)
      cl == Lower(c)
  IN  IF lang # <<>> /\ Lower(lang) # Lower(Unknown) THEN lang
      ELSE IF SearchCsDeclaration(cl) THEN CSharp
      ELSE IF Contains(c, <<"{">>) /\ Contains(c, <<"}">>) /\ Contains(c, <<";">>)
      THEN CSharp
      ELSE IF SearchVbBlockWord(cl) THEN VB
      ELSE IF SearchIfThen(cl) THEN VB
      ELSE Unknown

infer_language_from_code(language, code) ==
  LET lang == Strip(OrEmpty(language))
      c == OrEmpty(code)
      cl == Lower(c)
  IN  IF lang # <<>> /\ Lower(lang) # Lower(Unknown) THEN lang
      ELSE IF SearchVbBlockWord(cl) THEN VB
      ELSE IF SearchIfThen(cl) THEN VB
      ELSE IF SearchCsDeclaration(cl) THEN CSharp
      ELSE IF Contains(c, <<"{">>) /\ Contains(c, <<"}">>) /\ Contains(c, <<";">>)
      THEN CSharp
      ELSE Unknown

(***************************************************************************)
(* xml_common.split_vb_one_liners                                          *)
(***************************************************************************)
\* (f(x) for x in xs) concatenated: list.extend in a loop
RECURSIVE FlatMapLines(_, _, _)
FlatMapLines(Blank0(_), Parts(_), lines) ==
  IF lines = <<>> THEN <<>>
  ELSE LET raw == Strip(lines[1])
       IN  (IF raw = <<>> THEN Blank0(raw) ELSE Parts(raw))
           \o FlatMapLines(Blank0, Parts, Tail(lines))

\* step 1 with the continuation marker left in buf
RECURSIVE JoinLoopKeepsMarker(_, _, _)
JoinLoopKeepsMarker(raws, joined, buf) ==
  LET HasContinuation(b) ==
        LET u == Len(RStrip(b))
        IN  u > 1 /\ b[u] = "_" /\ IsSpace(b[u - 1])
      Joined(b) ==
        IF HasContinuation(b)
        THEN JoinLoopKeepsMarker(Tail(raws), joined, b)
        ELSE JoinLoopKeepsMarker(Tail(raws), Append(joined, b), <<>>)
  IN  IF raws = <<>> THEN IF buf # <<>> THEN Append(joined, buf) ELSE joined
      ELSE Joined(IF buf # <<>> THEN buf \o LStrip(RStrip(raws[1]))
                  ELSE RStrip(raws[1]))

\* step 1, the loop over s.split("\n"): joined_lines and buf after the
\* lines raws, from joined_lines = joined and buf
RECURSIVE JoinLoop(_, _, _)
JoinLoop(raws, joined, buf) ==
  LET \* re.search(r"\s+_\s*$", b)
      HasContinuation(b) ==
        LET u == Len(RStrip(b))
        IN  u > 1 /\ b[u] = "_" /\ IsSpace(b[u - 1])
      \* re.sub(r"\s+_\s*$", " ", b): the match starts where the white
      \* space before the final '_' starts
      StripContinuation(b) ==
        LET u == Len(RStrip(b))
            r == SetMin({k \in 1..(u - 1) : \A q \in k..(u - 1) : IsSpace(b[q])})
        IN  SubSeq(b, 1, r - 1) \o <<" ">>
      \* b is buf with the line appended
      Joined(b) ==
        IF HasContinuation(b)
        THEN JoinLoop(Tail(raws), joined, StripContinuation(b))
        ELSE JoinLoop(Tail(raws), Append(joined, b), <<>>)
  IN  IF raws = <<>> THEN IF buf # <<>> THEN Append(joined, buf) ELSE joined
      ELSE Joined(IF buf # <<>> THEN buf \o LStrip(RStrip(raws[1]))
                  ELSE RStrip(raws[1]))

JoinContinuations(s) == JoinLoop(Split(s, "\n"), <<>>, <<>>)

\* "".join(cur).strip() appended when it is not empty
AppendPart(parts, cur) ==
  IF Strip(cur) # <<>> THEN Append(parts, Strip(cur)) ELSE parts

\* step 2, the while loop of split_colons_outside_strings from index i
RECURSIVE ColonLoop(_, _, _, _, _)
ColonLoop(line, i, cur, in_string, parts) ==
  IF i >= Len(line) THEN AppendPart(parts, cur)
  ELSE LET ch == line[i + 1]
       IN  IF ch = "\""
           THEN IF in_string /\ i + 1 < Len(line) /\ line[i + 2] = "\""
                THEN ColonLoop(line, i + 2, cur \o <<"\"", "\"">>, in_string, parts)
                ELSE ColonLoop(line, i + 1, Append(cur, ch), ~in_string, parts)
           ELSE IF ch = ":" /\ ~in_string
           THEN ColonLoop(line, SkipWhile(IsSpace, line, i + 1), <<>>,
                          in_string, AppendPart(parts, cur))
           ELSE ColonLoop(line, i + 1, Append(cur, ch), in_string, parts)

\* one pass of the while loop of split_colons_outside_strings:
\* st = [i, cur, in_string, parts] with i < len(line); the pass that does
\* not move i past a doubled quote
ColonPassStuckOnEscape(st, line) ==
  IF line[st.i + 1] = "\"" /\ st.in_string /\ st.i + 1 < Len(line)
     /\ line[st.i + 2] = "\""
  THEN [st EXCEPT !.cur = st.cur \o <<"\"", "\"">>]
  ELSE [st EXCEPT !.i = st.i + 1]

\* one pass of the while loop of split_colons_outside_strings:
\* st = [i, cur, in_string, parts] with i < len(line)
ColonPass(st, line) ==
  LET ch == line[st.i + 1]
  IN  IF ch = "\""
      THEN IF st.in_string /\ st.i + 1 < Len(line) /\ line[st.i + 2] = "\""
           THEN [st EXCEPT !.i = st.i + 2, !.cur = st.cur \o <<"\"", "\"">>]
           ELSE [st EXCEPT !.i = st.i + 1, !.cur = Append(st.cur, ch),
                           !.in_string = ~st.in_string]
      ELSE IF ch = ":" /\ ~st.in_string
      THEN [st EXCEPT !.i = SkipWhile(IsSpace, line, st.i + 1), !.cur = <<>>,
                      !.parts = AppendPart(st.parts, st.cur)]
      ELSE [st EXCEPT !.i = st.i + 1, !.cur = Append(st.cur, ch)]

\* the split with in_string set from the start: the flag inverted
split_colons_flag_inverted(line) == ColonLoop(line, 0, <<>>, TRUE, <<>>)

split_colons_outside_strings(line) == ColonLoop(line, 0, <<>>, FALSE, <<>>)

VB_STATEMENT_KEYWORDS ==
  << <<"d","i","m"," ">>,
     <<"s","e","t"," ">>,
     <<"c","o","n","s","t"," ">>,
     <<"i","f"," ">>,
     <<"e","l","s","e","i","f"," ">>,
     <<"e","l","s","e">>,
     <<"e","n","d"," ","i","f">>,
     <<"s","e","l","e","c","t"," ","c","a","s","e">>,
     <<"c","a","s","e"," ">>,
     <<"e","n","d"," ","s","e","l","e","c","t">>,
     <<"t","r","y">>,
     <<"c","a","t","c","h"," ">>,
     <<"f","i","n","a","l","l","y">>,
     <<"e","n","d"," ","t","r","y">>,
     <<"f","o","r"," ","e","a","c","h"," ">>,
     <<"f","o","r"," ">>,
     <<"w","h","i","l","e"," ">>,
     <<"d","o"," ">>,
     <<"l","o","o","p">>,
     <<"n","e","x","t">>,
     <<"r","e","t","u","r","n">>,
     <<"e","x","i","t"," ","s","u","b">>,
     <<"e","x","i","t"," ","f","u","n","c","t","i","o","n">>,
     <<"e","x","i","t"," ","f","o","r">>,
     <<"e","x","i","t"," ","w","h","i","l","e">> >>

\* step 2.5, the while loop of split_midline_vb_statements from index i
RECURSIVE MidlineLoop(_, _, _, _, _)
MidlineLoop(line, i, cur, in_string, parts) ==
  LET \* some keyword of VB_STATEMENT_KEYWORDS starts at index i of low
      KeywordAt(low) ==
        \E n \in 1..Len(VB_STATEMENT_KEYWORDS) :
          StartsWithAt(low, VB_STATEMENT_KEYWORDS[n], i)
  IN
  IF i >= Len(line) THEN AppendPart(parts, cur)
  ELSE LET ch == line[i + 1]
       IN  IF ch = "\""
           THEN IF in_string /\ i + 1 < Len(line) /\ line[i + 2] = "\""
                THEN MidlineLoop(line, i + 2, cur \o <<"\"", "\"">>, in_string, parts)
                ELSE MidlineLoop(line, i + 1, Append(cur, ch), ~in_string, parts)
           ELSE IF ~in_string /\ cur # <<>> /\ KeywordAt(Lower(line))
           THEN MidlineLoop(line, i + 1, <<ch>>, in_string, AppendPart(parts, cur))
           ELSE MidlineLoop(line, i + 1, Append(cur, ch), in_string, parts)

split_midline_vb_statements(line) == MidlineLoop(line, 0, <<>>, FALSE, <<>>)

\* one pass of the while loop of split_midline_vb_statements:
\* st = [i, cur, in_string, parts] with i < len(line)
MidlinePass(st, line) ==
  LET ch == line[st.i + 1]
      \* some keyword of VB_STATEMENT_KEYWORDS starts at index i of low
      KeywordAt(low) ==
        \E n \in 1..Len(VB_STATEMENT_KEYWORDS) :
          StartsWithAt(low, VB_STATEMENT_KEYWORDS[n], st.i)
  IN  IF ch = "\""
      THEN IF st.in_string /\ st.i + 1 < Len(line) /\ line[st.i + 2] = "\""
           THEN [st EXCEPT !.i = st.i + 2, !.cur = st.cur \o <<"\"", "\"">>]
           ELSE [st EXCEPT !.i = st.i + 1, !.cur = Append(st.cur, ch),
                           !.in_string = ~st.in_string]
      ELSE IF ~st.in_string /\ st.cur # <<>> /\ KeywordAt(Lower(line))
      THEN [st EXCEPT !.i = st.i + 1, !.cur = <<ch>>,
                      !.parts = AppendPart(st.parts, st.cur)]
      ELSE [st EXCEPT !.i = st.i + 1, !.cur = Append(st.cur, ch)]

\* the empty line kept for a blank line
BlankLine(raw) == << <<>> >>

\* where `if\s+` can end in the lower-cased line low
IfHeadEnds(low) ==
  IF StartsWith(low, <<"i","f">>) THEN WsRunEnds(low, 2) \ {2} ELSE {}

\* \s+WORD\s+ matches from offset c: where the match can end (WORD is then
\* or else)
AfterSpacedWord(low, word, c) ==
  LET \* the white space before WORD ends at d
      AfterWordAt(d) ==
        IF d > c /\ StartsWithAt(low, word, d)
        THEN WsRunEnds(low, d + Len(word)) \ {d + Len(word)}
        ELSE {}
  IN  AfterWordAt(SkipWhile(IsSpace, low, c))

\* the rest \s+else\s+(.*)$ matches from offset f
ElseTailAt(low, f) == AfterSpacedWord(low, <<"e","l","s","e">>, f) # {}

\* \s+then\s+ matches from offset c and can end at e, and the rest
\* (.*?)\s+else\s+(.*)$ matches from there
ThenEnds(low, c) ==
  {e \in AfterSpacedWord(low, <<"t","h","e","n">>, c) :
     \E f \in e..Len(low) : ElseTailAt(low, f)}

\* the rest \s+then\s+(.*?)\s+else\s+(.*)$ matches from offset c
ThenElseTailAt(low, c) == ThenEnds(low, c) # {}

\* the rest \s+then\s+(.+)$ matches from offset c
ThenTailAt(low, c) ==
  \E e \in AfterSpacedWord(low, <<"t","h","e","n">>, c) : e < Len(low)

\* re.match(r"^if\s+(.*?)\s+then\s+(.*?)\s+else\s+(.*)$", t, re.IGNORECASE):
\* the groups of the first match in the order re tries them (greedy \s+,
\* lazy groups), or no match
MatchIfThenElse(t) ==
  LET Lowered(low) ==
        LET \* the groups, once the ends of if\s+ (a), of the first group
            \* (c), of \s+then\s+ (e) and of the second group (f) are
            \* settled
            Groups(a, c, e, f) ==
              [ok |-> TRUE,
               g1 |-> SubSeq(t, a + 1, c),
               g2 |-> SubSeq(t, e + 1, f),
               g3 |-> From(t, SetMax(AfterSpacedWord(low, <<"e","l","s","e">>, f)))]
            \* the second group is lazy: the first offset from which the
            \* rest matches
            FromThen(a, c, e) ==
              Groups(a, c, e, SetMin({x \in e..Len(low) : ElseTailAt(low, x)}))
            \* \s+ after then is greedy: the last end from which the rest
            \* matches
            FromCond(a, c) == FromThen(a, c, SetMax(ThenEnds(low, c)))
            \* the first group is lazy: the first offset from which the
            \* rest matches
            FromHead(a) ==
              FromCond(a, SetMin({x \in a..Len(low) : ThenElseTailAt(low, x)}))
            \* \s+ after if is greedy: the last of the ends heads from
            \* which the rest matches
            FromHeads(heads) ==
              IF heads = {} THEN [ok |-> FALSE] ELSE FromHead(SetMax(heads))
        IN  FromHeads({a \in IfHeadEnds(low) :
                         \E c \in a..Len(low) : ThenElseTailAt(low, c)})
  IN  Lowered(Lower(t))

\* re.match(r"^if\s+(.*?)\s+then\s+(.+)$", t, re.IGNORECASE)
MatchIfThen(t) ==
  LET Lowered(low) ==
        LET Groups(a, c) ==
              [ok |-> TRUE,
               g1 |-> SubSeq(t, a + 1, c),
               g2 |-> From(t, SetMax({x \in AfterSpacedWord(low, <<"t","h","e","n">>, c) :
                                        x < Len(low)}))]
            FromHead(a) ==
              Groups(a, SetMin({x \in a..Len(low) : ThenTailAt(low, x)}))
            FromHeads(heads) ==
              IF heads = {} THEN [ok |-> FALSE] ELSE FromHead(SetMax(heads))
        IN  FromHeads({a \in IfHeadEnds(low) :
                         \E c \in a..Len(low) : ThenTailAt(low, c)})
  IN  Lowered(Lower(t))

IfThenLine(cond) == <<"I","f"," ">> \o cond \o <<" ","T","h","e","n">>
BodyLine(stmt) == <<" "," "," "," ">> \o stmt
ElseLine == <<"E","l","s","e">>
EndIfLine == <<"E","n","d"," ","I","f">>

\* the lines put out for the line t with the matches m and m2
ExpandMatched(t, low, m, m2) ==
  IF m.ok
  THEN <<IfThenLine(Strip(m.g1)), BodyLine(Strip(m.g2)), ElseLine,
         BodyLine(Strip(m.g3)), EndIfLine>>
  ELSE IF m2.ok /\ ~EndsWith(low, <<"t","h","e","n">>)
  THEN <<IfThenLine(Strip(m2.g1)), BodyLine(Strip(m2.g2)), EndIfLine>>
  ELSE <<t>>

ExpandStripped(t) ==
  IF t = <<>> THEN << <<>> >>
  ELSE ExpandMatched(t, Lower(t), MatchIfThenElse(t), MatchIfThen(t))

\* step 3, one pass of the while loop: the lines put out for split_lines[i]
ExpandIfLine(raw) == ExpandStripped(Strip(raw))

RECURSIVE ExpandIfs(_)
ExpandIfs(lines) ==
  IF lines = <<>> THEN <<>>
  ELSE ExpandIfLine(lines[1]) \o ExpandIfs(Tail(lines))

\* re.sub(r"\n{3,}", "\n\n", s)
RECURSIVE CollapseBlankRuns(_)
CollapseBlankRuns(s) ==
  LET at == {i \in 0..(Len(s) - 3) : StartsWithAt(s, <<"\n","\n","\n">>, i)}
  IN  IF at = {} THEN s
      ELSE LET i == SetMin(at)
               j == SkipWhile(LAMBDA c : c = "\n", s, i)
           IN  SubSeq(s, 1, i) \o <<"\n","\n">> \o CollapseBlankRuns(From(s, j))

\* code.replace("\r\n", "\n").replace("\r", "\n")
CrToLf(code) ==
  Replace(Replace(code, <<"\r","\n">>, <<"\n">>), <<"\r">>, <<"\n">>)

\* "\n".join(out_lines), the blank runs collapsed, stripped
JoinedAndCollapsed(out_lines) ==
  Strip(CollapseBlankRuns(Join(out_lines, <<"\n">>)))

\* step 2 on the joined lines
SplitColonsAll(joined_lines) ==
  FlatMapLines(BlankLine, split_colons_outside_strings,
               Split(Join(joined_lines, <<"\n">>), "\n"))

\* step 2.5 on the lines of step 2
SplitMidlineAll(split_lines) ==
  FlatMapLines(BlankLine, split_midline_vb_statements, split_lines)

split_vb_one_liners(code) ==
  IF code = None \/ code = <<>> THEN <<>>
  ELSE JoinedAndCollapsed(ExpandIfs(SplitMidlineAll(SplitColonsAll(
         JoinContinuations(CrToLf(code))))))

(***************************************************************************)
(* xml_common.pretty_print_vb_blocks                                       *)
(***************************************************************************)
enders ==
  { <<"e","n","d"," ","i","f">>,
    <<"e","n","d"," ","s","u","b">>,
    <<"e","n","d"," ","f","u","n","c","t","i","o","n">>,
    <<"e","n","d"," ","s","e","l","e","c","t">>,
    <<"e","n","d"," ","t","r","y">>,
    <<"n","e","x","t">>,
    <<"l","o","o","p">>,
    <<"w","e","n","d">>,
    <<"e","n","d"," ","w","h","i","l","e">>,
    <<"e","n","d"," ","w","i","t","h">> }

starters ==
  { <<"i","f"," ">>,
    <<"s","e","l","e","c","t"," ","c","a","s","e">>,
    <<"t","r","y">>,
    <<"f","o","r"," ">>,
    <<"w","h","i","l","e"," ">>,
    <<"w","i","t","h"," ">>,
    <<"d","o"," ">>,
    <<"s","u","b"," ">>,
    <<"f","u","n","c","t","i","o","n"," ">> }

miders ==
  { <<"e","l","s","e">>,
    <<"e","l","s","e","i","f">>,
    <<"c","a","s","e"," ">>,
    <<"c","a","t","c","h">>,
    <<"f","i","n","a","l","l","y">> }

\* any(low.startswith(w) for w in words)
StartsWithAny(low, words) == \E w \in words : StartsWith(low, w)

\* "    " * indent
Spaces4(indent) == [j \in 1..(4 * indent) |-> " "]

Max0(n) == IF n > 0 THEN n ELSE 0

\* the loop body that takes the lines of miders for plain lines
IndentVbLineWithoutMiders(st, raw) ==
  LET \* the line is put out and opens a block or not
      Plain(indent, out, line, low) ==
        [indent |->
           IF StartsWithAny(low, starters)
           THEN IF StartsWith(low, <<"i","f"," ">>) /\ EndsWith(low, <<"t","h","e","n">>)
                THEN indent + 1
                ELSE IF /\ StartsWith(low, <<"i","f"," ">>)
                        /\ Contains(low, <<" ","t","h","e","n"," ">>)
                        /\ ~EndsWith(low, <<"t","h","e","n">>)
                THEN indent
                ELSE indent + 1
           ELSE indent,
         out |-> Append(out, Spaces4(indent) \o line)]
      \* the line after the test for enders, indent being what that test
      \* left
      AfterEnders(indent, out, line, low) ==
        Plain(indent, out, line, low)
      StrippedLine(indent, out, line, low) ==
        IF line = <<>> THEN [indent |-> indent, out |-> Append(out, <<>>)]
        ELSE AfterEnders(IF StartsWithAny(low, enders) THEN Max0(indent - 1)
                         ELSE indent,
                         out, line, low)
      Lowered(indent, out, line) == StrippedLine(indent, out, line, Lower(line))
  IN  Lowered(st.indent, st.out, Strip(raw))

\* one pass of the for loop: st = [indent, out] before the line raw
IndentVbLine(st, raw) ==
  LET \* the line is put out and opens a block or not
      Plain(indent, out, line, low) ==
        [indent |->
           IF StartsWithAny(low, starters)
           THEN IF StartsWith(low, <<"i","f"," ">>) /\ EndsWith(low, <<"t","h","e","n">>)
                THEN indent + 1
                ELSE IF /\ StartsWith(low, <<"i","f"," ">>)
                        /\ Contains(low, <<" ","t","h","e","n"," ">>)
                        /\ ~EndsWith(low, <<"t","h","e","n">>)
                THEN indent
                ELSE indent + 1
           ELSE indent,
         out |-> Append(out, Spaces4(indent) \o line)]
      \* the line after the test for enders, indent being what that test
      \* left
      AfterEnders(indent, out, line, low) ==
        IF StartsWithAny(low, miders)
        THEN [indent |-> Max0(indent - 1) + 1,
              out |-> Append(out, Spaces4(Max0(indent - 1)) \o line)]
        ELSE Plain(indent, out, line, low)
      StrippedLine(indent, out, line, low) ==
        IF line = <<>> THEN [indent |-> indent, out |-> Append(out, <<>>)]
        ELSE AfterEnders(IF StartsWithAny(low, enders) THEN Max0(indent - 1)
                         ELSE indent,
                         out, line, low)
      Lowered(indent, out, line) == StrippedLine(indent, out, line, Lower(line))
  IN  Lowered(st.indent, st.out, Strip(raw))

RECURSIVE IndentVbLines(_, _)
IndentVbLines(st, lines) ==
  IF lines = <<>> THEN st
  ELSE IndentVbLines(IndentVbLine(st, lines[1]), Tail(lines))

TabsToSpaces(s) == Replace(s, <<"\t">>, <<" "," "," "," ">>)

pretty_print_vb_blocks(code) ==
  LET \* once split_vb_one_liners has returned s
      Indented(s) ==
        IF s = <<>> THEN <<>>
        ELSE Strip(Join(IndentVbLines([indent |-> 0, out |-> <<>>],
                                      Split(TabsToSpaces(s), "\n")).out,
                        <<"\n">>))
  IN  Indented(split_vb_one_liners(normalize_code(code)))

(***************************************************************************)
(* xml_common.normalize_whitespace, split_csharp_one_liners,               *)
(* pretty_print_csharp_braces, pretty_print_code, count_display_lines      *)
(***************************************************************************)
\* the for loop of normalize_whitespace: out after lines, from out and
\* blank_run
RECURSIVE WhitespaceLoop(_, _, _)
WhitespaceLoop(lines, out, blank_run) ==
  IF lines = <<>> THEN out
  ELSE IF Strip(lines[1]) = <<>>
  THEN WhitespaceLoop(Tail(lines),
                      IF blank_run + 1 <= 1 THEN Append(out, <<>>) ELSE out,
                      blank_run + 1)
  ELSE WhitespaceLoop(Tail(lines), Append(out, RStrip(lines[1])), 0)

normalize_whitespace(code) ==
  LET lines == Split(TabsToSpaces(IF code = None THEN <<>> ELSE code), "\n")
  IN  Strip(Join(WhitespaceLoop(lines, <<>>, 0), <<"\n">>))

\* where a match of  open \s* word \s* close  that starts at offset i ends
\* (re.IGNORECASE), or -1
SpacedMatchEnd(s, i, open, word, close) ==
  LET a == SkipWhile(IsSpace, s, i + 1)
      b == SkipWhile(IsSpace, s, a + Len(word))
  IN  IF /\ i < Len(s) /\ s[i + 1] = open
         /\ StartsWithAt(Lower(s), word, a)
         /\ b < Len(s) /\ s[b + 1] = close
      THEN b + 1 ELSE 0 - 1

\* re.sub(open \s* word \s* close, repl, s, flags=re.IGNORECASE)
RECURSIVE SubSpaced(_, _, _, _, _)
SubSpaced(s, open, word, close, repl) ==
  LET \* the match that starts at offset i is replaced, then those after it
      Cut(i) ==
        SubSeq(s, 1, i) \o repl \o
        SubSpaced(From(s, SpacedMatchEnd(s, i, open, word, close)),
                  open, word, close, repl)
      \* at: the offsets where a match starts
      At(at) == IF at = {} THEN s ELSE Cut(SetMin(at))
  IN  At({i \in 0..(Len(s) - 1) : SpacedMatchEnd(s, i, open, word, close) >= 0})

\* p.strip() + ";" for every non-blank p of parts[:-1], then the non-blank
\* parts[-1].strip()
RECURSIVE SemicolonParts(_)
SemicolonParts(parts) ==
  IF Len(parts) = 1
  THEN IF Strip(parts[1]) # <<>> THEN <<Strip(parts[1])>> ELSE <<>>
  ELSE (IF Strip(parts[1]) # <<>> THEN <<Append(Strip(parts[1]), ";")>>
        ELSE <<>>) \o SemicolonParts(Tail(parts))

\* the for loop that splits statements at semicolons, from out and in_for
RECURSIVE SemicolonLoop(_, _, _)
SemicolonLoop(lines, out, in_for) ==
  LET \* the rest of one pass, in_for_ being in_for as set for the line
      Line(in_for_) ==
        SemicolonLoop(Tail(lines),
                      IF ~in_for_ /\ Contains(lines[1], <<";">>)
                      THEN out \o SemicolonParts(Split(lines[1], ";"))
                      ELSE Append(out, lines[1]),
                      in_for_)
      \* one pass, t being line.strip().lower()
      Stripped(t) ==
        Line(/\ \/ in_for
                \/ StartsWith(t, <<"f","o","r","(">>)
                \/ StartsWith(t, <<"f","o","r"," ","(">>)
             /\ ~Contains(t, <<")">>))
  IN  IF lines = <<>> THEN out
      ELSE Stripped(Lower(Strip(lines[1])))

\* the code with braces and else, catch, finally on lines of their own: s
\* before the loop over its lines; code is not empty
BracesOnOwnLines(code) ==
  LET s0 == CrToLf(code)
      s1 == Replace(s0, <<"{">>, <<"{","\n">>)
      s2 == Replace(s1, <<"}">>, <<"\n","}","\n">>)
      s3 == SubSpaced(s2, ")", <<"e","l","s","e">>, "{",
                      <<")","\n","e","l","s","e","\n","{">>)
      s4 == SubSpaced(s3, "}", <<"e","l","s","e">>, "{",
                      <<"}","\n","e","l","s","e","\n","{">>)
      s5 == SubSpaced(s4, "}", <<"c","a","t","c","h">>, "(",
                      <<"}","\n","c","a","t","c","h","(">>)
  IN  SubSpaced(s5, "}", <<"f","i","n","a","l","l","y">>, "{",
                <<"}","\n","f","i","n","a","l","l","y","\n","{">>)

split_csharp_one_liners(code) ==
  IF code = None \/ code = <<>> THEN <<>>
  ELSE JoinedAndCollapsed(
         SemicolonLoop(Split(BracesOnOwnLines(code), "\n"), <<>>, FALSE))

\* one pass of the loop that splits statements at semicolons:
\* st = [in_for, out] before the line
SemicolonPass(st, line) ==
  LET \* the rest of the pass, in_for being in_for as set for the line
      Line(in_for) ==
        [in_for |-> in_for,
         out |-> IF ~in_for /\ Contains(line, <<";">>)
                 THEN st.out \o SemicolonParts(Split(line, ";"))
                 ELSE Append(st.out, line)]
      \* t being line.strip().lower()
      Stripped(t) ==
        Line(/\ \/ st.in_for
                \/ StartsWith(t, <<"f","o","r","(">>)
                \/ StartsWith(t, <<"f","o","r"," ","(">>)
             /\ ~Contains(t, <<")">>))
  IN  Stripped(Lower(Strip(line)))

\* the for loop of collapse_spaces_outside_strings from character i
RECURSIVE CollapseLoop(_, _, _, _, _, _)
CollapseLoop(line, i, out, in_str, esc, prev_space) ==
  IF i > Len(line) THEN out
  ELSE LET ch == line[i]
       IN  IF in_str
           THEN CollapseLoop(line, i + 1, Append(out, ch),
                             ~(~esc /\ ch # "\\" /\ ch = "\""),
                             ~esc /\ ch = "\\", prev_space)
           ELSE IF ch = "\""
           THEN CollapseLoop(line, i + 1, Append(out, ch), TRUE, esc, FALSE)
           ELSE IF IsSpace(ch)
           THEN CollapseLoop(line, i + 1,
                             IF ~prev_space THEN Append(out, " ") ELSE out,
                             in_str, esc, TRUE)
           ELSE CollapseLoop(line, i + 1, Append(out, ch), in_str, esc, FALSE)

collapse_spaces_outside_strings(line) ==
  RStrip(CollapseLoop(line, 1, <<>>, FALSE, FALSE, FALSE))

\* the loop body without the dedent of a line that starts with a closing
\* brace
IndentCsLineNoDedent(st, raw) ==
  LET Collapsed(indent, out, line) ==
        [indent |-> Max0(indent + Count(line, "{") - Count(line, "}")),
         out |-> Append(out, Spaces4(indent) \o line)]
      Stripped(line) ==
        IF line = <<>>
        THEN [indent |-> st.indent,
              out |-> IF st.out # <<>> /\ st.out[Len(st.out)] # <<>>
                      THEN Append(st.out, <<>>) ELSE st.out]
        ELSE Collapsed(st.indent, st.out, collapse_spaces_outside_strings(line))
  IN  Stripped(Strip(raw))

\* the loop body with indent left as the braces move it, below 0 too
IndentCsLineUnclamped(st, raw) ==
  LET Collapsed(indent, out, line) ==
        [indent |-> (IF StartsWith(line, <<"}">>) THEN indent - 1 ELSE indent)
                      + Count(line, "{") - Count(line, "}"),
         out |-> Append(out, Spaces4(Max0(IF StartsWith(line, <<"}">>)
                                          THEN indent - 1 ELSE indent))
                               \o line)]
      Stripped(line) ==
        IF line = <<>>
        THEN [indent |-> st.indent,
              out |-> IF st.out # <<>> /\ st.out[Len(st.out)] # <<>>
                      THEN Append(st.out, <<>>) ELSE st.out]
        ELSE Collapsed(st.indent, st.out, collapse_spaces_outside_strings(line))
  IN  Stripped(Strip(raw))

\* one pass of the for loop of pretty_print_csharp_braces: st = [indent, out]
IndentCsLine(st, raw) ==
  LET \* the non-blank line, its spacing collapsed, is put out
      Collapsed(indent, out, line) ==
        [indent |-> Max0((IF StartsWith(line, <<"}">>) THEN Max0(indent - 1)
                          ELSE indent) + Count(line, "{") - Count(line, "}")),
         out |-> Append(out, Spaces4(IF StartsWith(line, <<"}">>)
                                     THEN Max0(indent - 1) ELSE indent) \o line)]
      Stripped(line) ==
        IF line = <<>>
        THEN [indent |-> st.indent,
              out |-> IF st.out # <<>> /\ st.out[Len(st.out)] # <<>>
                      THEN Append(st.out, <<>>) ELSE st.out]
        ELSE Collapsed(st.indent, st.out, collapse_spaces_outside_strings(line))
  IN  Stripped(Strip(raw))

RECURSIVE IndentCsLines(_, _)
IndentCsLines(st, lines) ==
  IF lines = <<>> THEN st
  ELSE IndentCsLines(IndentCsLine(st, lines[1]), Tail(lines))

pretty_print_csharp_braces(code) ==
  LET \* once split_csharp_one_liners has returned s
      Indented(s) ==
        IF s = <<>> THEN <<>>
        ELSE Strip(Join(IndentCsLines([indent |-> 0, out |-> <<>>],
                                      Split(TabsToSpaces(s), "\n")).out,
                        <<"\n">>))
  IN  Indented(split_csharp_one_liners(code))

\* pretty_print_code once code and language are normalized
PrettyByLanguage(code, language) ==
  IF code = <<>> THEN <<>>
  ELSE IF language = CSharp THEN pretty_print_csharp_braces(code)
  ELSE IF language = VB THEN pretty_print_vb_blocks(code)
  ELSE normalize_whitespace(code)

pretty_print_code(code, language) ==
  PrettyByLanguage(normalize_code(code), normalize_language(language))

count_display_lines(code) ==
  IF code = None \/ code = <<>> THEN 0 ELSE Count(code, "\n") + 1

(***************************************************************************)
(* utils.sha256_text                                                       *)
(***************************************************************************)
\* the characters U+0020 .. U+005F in code point order
AsciiFrom32 ==
  << " ", "!", "\"", "#", "$", "%", "&", "'", "(", ")", "*", "+",
     ",", "-", ".", "/", "0", "1", "2", "3", "4", "5", "6", "7",
     "8", "9", ":", ";", "<", "=", ">", "?", "@", "A", "B", "C",
     "D", "E", "F", "G", "H", "I", "J", "K", "L", "M", "N", "O",
     "P", "Q", "R", "S", "T", "U", "V", "W", "X", "Y", "Z", "[",
     "\\", "]", "^", "_" >>

\* the characters U+0061 .. U+007E in code point order
AsciiFrom97 ==
  << "a", "b", "c", "d", "e", "f", "g", "h", "i", "j", "k", "l",
     "m", "n", "o", "p", "q", "r", "s", "t", "u", "v", "w", "x",
     "y", "z", "{", "|", "}", "~" >>

\* ord(c) for the characters of the alphabets used here, all of them ASCII
OrdOf ==
  [c \in {AsciiFrom32[k] : k \in 1..Len(AsciiFrom32)}
           \cup {AsciiFrom97[k] : k \in 1..Len(AsciiFrom97)}
           \cup {"\t", "\n", "\r"} |->
     CASE c = "\t" -> 9
       [] c = "\n" -> 10
       [] c = "\r" -> 13
       [] \E k \in 1..Len(AsciiFrom32) : AsciiFrom32[k] = c ->
            31 + CHOOSE k \in 1..Len(AsciiFrom32) : AsciiFrom32[k] = c
       [] OTHER ->
            96 + CHOOSE k \in 1..Len(AsciiFrom97) : AsciiFrom97[k] = c]

\* s.encode("utf-8", errors="ignore"): one byte per ASCII character
Utf8Encode(s) == [k \in 1..Len(s) |-> OrdOf[s[k]]]

\* hashlib.sha256(data).hexdigest(), idealised as free of collisions: the
\* digest stands for the bytes it was computed from
Sha256Hex(data) == [sha256 |-> data]

sha256_text(s) == Sha256Hex(Utf8Encode(IF s = None THEN <<>> ELSE s))

(***************************************************************************)
(* xml_common.simple_code_findings                                         *)
(***************************************************************************)
\* the substrings has_any is called with, by the key of the flag
FlagSubstrings ==
  [ has_sql_keywords |->
      { <<"s","e","l","e","c","t"," ">>,
        <<"i","n","s","e","r","t"," ">>,
        <<"u","p","d","a","t","e"," ">>,
        <<"d","e","l","e","t","e"," ">>,
        <<"e","x","e","c"," ">>,
        <<"s","p","_">>,
        <<"m","e","r","g","e"," ">> },
    has_http |->
      { <<"h","t","t","p",":","/","/">>,
        <<"h","t","t","p","s",":","/","/">>,
        <<"w","e","b","r","e","q","u","e","s","t">>,
        <<"h","t","t","p","c","l","i","e","n","t">>,
        <<"r","e","s","t","s","h","a","r","p">> },
    has_file_io |->
      { <<"f","i","l","e","s","y","s","t","e","m">>,
        <<"f","i","l","e",".">>,
        <<"d","i","r","e","c","t","o","r","y",".">>,
        <<"s","t","r","e","a","m","r","e","a","d","e","r">>,
        <<"s","t","r","e","a","m","w","r","i","t","e","r">> },
    has_crypto |->
      { <<"s","h","a">>,
        <<"m","d","5">>,
        <<"a","e","s">>,
        <<"r","s","a">>,
        <<"c","r","y","p","t","o","g","r","a","p","h","y">>,
        <<"r","i","j","n","d","a","e","l">> },
    has_reflection |->
      { <<"r","e","f","l","e","c","t","i","o","n">>,
        <<"g","e","t","t","y","p","e","(">>,
        <<"a","c","t","i","v","a","t","o","r",".","c","r","e","a","t","e","i","n","s","t","a","n","c","e">> },
    has_process_start |->
      { <<"p","r","o","c","e","s","s",".","s","t","a","r","t">>,
        <<"s","h","e","l","l","(">>,
        <<"w","s","c","r","i","p","t",".","s","h","e","l","l">> },
    mentions_blueprism_internal |->
      { <<"b","l","u","e","p","r","i","s","m">>,
        <<"a","u","t","o","m","a","t","e">>,
        <<"s","e","s","s","i","o","n">>,
        <<"r","e","s","o","u","r","c","e","p","c">> } ]

\* has_any(*subs): any(s in c_low for s in subs)
has_any(c_low, subs) == \E sub \in subs : Contains(c_low, sub)

\* re.search(r"(password\s*=|pwd\s*=|apikey|api_key|token\s*=|bearer\s+)",
\* c_low)
SearchCredential(c_low) ==
  LET \* word\s*= matches somewhere
      WordEquals(word) ==
        \E i \in 0..Len(c_low) :
          /\ StartsWithAt(c_low, word, i)
          /\ SkipWhile(IsSpace, c_low, i + Len(word)) < Len(c_low)
          /\ c_low[SkipWhile(IsSpace, c_low, i + Len(word)) + 1] = "="
  IN  \/ WordEquals(<<"p","a","s","s","w","o","r","d">>)
      \/ WordEquals(<<"p","w","d">>)
      \/ Contains(c_low, <<"a","p","i","k","e","y">>)
      \/ Contains(c_low, <<"a","p","i","_","k","e","y">>)
      \/ WordEquals(<<"t","o","k","e","n">>)
      \/ \E i \in 0..Len(c_low) :
           /\ StartsWithAt(c_low, <<"b","e","a","r","e","r">>, i)
           /\ i + 6 < Len(c_low)
           /\ IsSpace(c_low[i + 7])

\* [^\s\"\'<>]
IsUrlChar(ch) == ~IsSpace(ch) /\ ch \notin {"\"", "'", "<", ">"}

\* where the match of https?://[^\s\"\'<>]+ that starts at offset i ends, or
\* -1
UrlMatchEnd(c, i) ==
  LET \* the characters of the class start at offset p
      Class(p) == IF SkipWhile(IsUrlChar, c, p) > p
                  THEN SkipWhile(IsUrlChar, c, p) ELSE 0 - 1
  IN  IF StartsWithAt(c, <<"h","t","t","p",":","/","/">>, i) THEN Class(i + 7)
      ELSE IF StartsWithAt(c, <<"h","t","t","p","s",":","/","/">>, i) THEN Class(i + 8)
      ELSE 0 - 1

\* re.findall(r"https?://[^\s\"\'<>]+", c) from offset i: the matches from
\* left to right, none overlapping another
RECURSIVE FindAllUrls(_, _)
FindAllUrls(c, i) ==
  LET Matched(j) ==
        <<SubSeq(c, j + 1, UrlMatchEnd(c, j))>>
          \o FindAllUrls(c, UrlMatchEnd(c, j))
      Starts(at) == IF at = {} THEN <<>> ELSE Matched(SetMin(at))
  IN  Starts({j \in i..(Len(c) - 1) : UrlMatchEnd(c, j) >= 0})

\* a < b for two str: by code point, a proper prefix first
StrLess(a, b) ==
  \E k \in 0..Len(a) :
    /\ k <= Len(b)
    /\ \A j \in 1..k : a[j] = b[j]
    /\ IF k = Len(a) THEN k < Len(b)
       ELSE k < Len(b) /\ OrdOf[a[k + 1]] < OrdOf[b[k + 1]]

\* sorted(S) for a set S of str
RECURSIVE Sorted(_)
Sorted(S) ==
  LET Least(x) == <<x>> \o Sorted(S \ {x})
  IN  IF S = {} THEN <<>>
      ELSE Least(CHOOSE x \in S : \A y \in S : x = y \/ StrLess(x, y))

\* the 50 of [:50]
UrlLimit == 50

\* urls[:50]: the matches as found, neither deduplicated nor sorted
FirstUrls(urls) ==
  SubSeq(urls, 1, IF Len(urls) < UrlLimit THEN Len(urls) ELSE UrlLimit)

\* sorted(set(urls))[:50]
SortedUrls(urls) ==
  LET Truncated(sorted) ==
        SubSeq(sorted, 1,
               IF Len(sorted) < UrlLimit THEN Len(sorted) ELSE UrlLimit)
  IN  Truncated(Sorted({urls[n] : n \in 1..Len(urls)}))

\* the findings for c = code or "" and c_low
FindingsOf(c, c_low) ==
  [has_sql_keywords |-> has_any(c_low, FlagSubstrings.has_sql_keywords),
   has_http |-> has_any(c_low, FlagSubstrings.has_http),
   has_file_io |-> has_any(c_low, FlagSubstrings.has_file_io),
   has_crypto |-> has_any(c_low, FlagSubstrings.has_crypto),
   has_reflection |-> has_any(c_low, FlagSubstrings.has_reflection),
   has_process_start |-> has_any(c_low, FlagSubstrings.has_process_start),
   has_hardcoded_credential_like |-> SearchCredential(c_low),
   mentions_blueprism_internal |-> has_any(c_low, FlagSubstrings.mentions_blueprism_internal),
   urls |-> SortedUrls(FindAllUrls(c, 0))]

\* the findings with the patterns looked for in the code as it is written
simple_code_findings_as_written(code) ==
  FindingsOf(IF code = None THEN <<>> ELSE code,
             IF code = None THEN <<>> ELSE code)

simple_code_findings(code) ==
  FindingsOf(IF code = None THEN <<>> ELSE code,
             Lower(IF code = None THEN <<>> ELSE code))

(***************************************************************************)
(* details_pipeline.run_details: the pass over the code stages             *)
(***************************************************************************)
\* the event that ends the element started by event p
EndOf(ev, p) ==
  SetMin({q \in (p + 1)..Len(ev) :
            /\ ev[q].k = "end"
            /\ Cardinality({r \in p..q : ev[r].k = "start"})
                 = Cardinality({r \in p..q : ev[r].k = "end"})})

\* the element started by event p of ev, on its own (without its tail)
ElementAt(ev, p) == SubSeq(ev, p, EndOf(ev, p))

\* root.findall(".//stage[@type='Code']"): the events that start the stage
\* elements below the root whose type is Code, in document order
FindAllStages(ev) ==
  LET hits == {p \in 2..Len(ev) :
                 /\ ev[p].k = "start"
                 /\ ev[p].v = <<"s","t","a","g","e">>
                 /\ GetAttr(ev[p], <<"t","y","p","e">>) = <<"C","o","d","e">>}
      RECURSIVE Ordered(_)
      Ordered(ps) == IF ps = {} THEN <<>>
                     ELSE <<SetMin(ps)>> \o Ordered(ps \ {SetMin(ps)})
  IN  Ordered(hits)

\* what event q contributes to ET.tostring(elem, encoding="unicode")
TostringPiece(ev, q) ==
  LET e == ev[q]
      txt == TextAfter(ev, q)
  IN  CASE e.k = "text" -> <<>>
        [] e.k = "start" ->
             IF ev[q + 1].k = "end"
             THEN OpenTag(e) \o <<" ", "/", ">">>
             ELSE OpenTag(e) \o <<">">> \o
                  (IF txt = None THEN <<>> ELSE EscapeCdata(txt))
        [] e.k = "end" ->
             (IF ev[q - 1].k = "start" THEN <<>>
              ELSE <<"<", "/">> \o e.v \o <<">">>) \o
             (IF txt = None THEN <<>> ELSE EscapeCdata(txt))

\* ET.tostring(stage, encoding="unicode", method="xml") for the element
\* started by event p: the element and its tail
ET_tostring(ev, p) ==
  Flatten([k \in 1..(EndOf(ev, p) - p + 1) |-> TostringPiece(ev, p + k - 1)])

code_tag_candidates ==
  << <<"c","o","d","e">>,
     <<"c","o","d","e","t","e","x","t">>,
     <<"s","c","r","i","p","t">>,
     <<"t","e","x","t">>,
     <<"b","o","d","y">>,
     <<"v","b">>,
     <<"c","s","h","a","r","p">> >>

\* extract_first_text on the element with events stage
extract_first_text(stage, tag_candidates) ==
  LET hits == {j \in 1..Len(tag_candidates) :
                 LET n == FindDescendant(stage, tag_candidates[j])
                 IN  n # 0 /\ TextAfter(stage, n) # None}
  IN  IF hits = {} THEN <<>>
      ELSE TextAfter(stage, FindDescendant(stage, tag_candidates[SetMin(hits)]))

language_tags ==
  << <<"l","a","n","g","u","a","g","e">>,
     <<"c","o","d","e","l","a","n","g","u","a","g","e">>,
     <<"l","a","n","g">> >>

\* the text of the first of language, codelanguage, lang below elem that has
\* text, or None
LanguageBelow(elem) ==
  LET hits == {j \in 1..Len(language_tags) :
                 LET n == FindDescendant(elem, language_tags[j])
                 IN  n # 0 /\ TextAfter(elem, n) # None}
  IN  IF hits = {} THEN None
      ELSE TextAfter(elem, FindDescendant(elem, language_tags[SetMin(hits)]))

detect_language(root, stage) ==
  LET \* the first of the stage's and the root's language texts that is
      \* there
      First(of_stage, of_root) ==
        IF of_stage # None THEN Strip(of_stage)
        ELSE IF of_root # None THEN Strip(of_root)
        ELSE Unknown
  IN  First(LanguageBelow(stage), LanguageBelow(root))

\* pretty[:300].replace("\n", " ") + ("..." if len(pretty) > 300 else "")
Preview(pretty) ==
  Replace(SubSeq(pretty, 1, IF Len(pretty) > 300 THEN 300 ELSE Len(pretty)),
          <<"\n">>, <<" ">>)
    \o (IF Len(pretty) > 300 THEN <<".",".",".">> ELSE <<>>)

\* code_text: the first candidate text, or the stage's XML when there is none
StageCodeText(root, p, first) ==
  IF first = <<>> THEN ET_tostring(root, p) ELSE first

\* the locals of one pass once the language is resolved
LocalsOfLanguage(ex, language) ==
  [code_norm |-> ex.code,
   source_kind |-> ex.kind,
   language |-> language,
   pretty |-> pretty_print_code(ex.code, language)]

\* the locals of one pass, hint being what detect_language returned and ex
\* what extract_code_from_possible_stage_xml returned
LocalsOfExtract(hint, ex) ==
  LocalsOfLanguage(ex, infer_language_from_code(hint, ex.code))

\* the locals of one pass of the loop over the code stages, for the stage
\* started by event p of the root's events
StageLocals(root, p) ==
  LocalsOfExtract(
    detect_language(root, ElementAt(root, p)),
    extract_code_from_possible_stage_xml(
      StageCodeText(root, p, extract_first_text(ElementAt(root, p),
                                                code_tag_candidates))))

\* the row with the digest taken of the displayed text
CodeStageRowDigestOfPretty(l) ==
  [language |-> l.language,
   code_text |-> l.pretty,
   code_preview |-> Preview(l.pretty),
   line_count |-> count_display_lines(l.pretty),
   sha256 |-> sha256_text(l.pretty),
   code_norm |-> l.code_norm]

\* the row with the lines counted in code_norm
CodeStageRowLinesOfNorm(l) ==
  [language |-> l.language,
   code_text |-> l.pretty,
   code_preview |-> Preview(l.pretty),
   line_count |-> count_display_lines(l.code_norm),
   sha256 |-> sha256_text(l.code_norm),
   code_norm |-> l.code_norm]

\* the row inserted into object_code_stage_report (language, code_text,
\* code_preview, line_count, sha256), with the local code_norm beside it
CodeStageRow(l) ==
  [language |-> l.language,
   code_text |-> l.pretty,
   code_preview |-> Preview(l.pretty),
   line_count |-> count_display_lines(l.pretty),
   sha256 |-> sha256_text(l.code_norm),
   code_norm |-> l.code_norm]

StageRow(root, p) == CodeStageRow(StageLocals(root, p))

\* the tags run_details looks under for the global code of an object
global_code_tags ==
  << <<"g","l","o","b","a","l","c","o","d","e">>,
     <<"g","l","o","b","a","l">>,
     <<"g","l","o","b","a","l","c","o","d","e","s","e","c","t","i","o","n">>,
     <<"g","l","o","b","a","l","c","o","d","e","i","n","f","o">> >>

\* the rows inserted for the code stages of the root, in document order
StageRows(root, stages) == [k \in 1..Len(stages) |-> StageRow(root, stages[k])]

\* what the try statement does with the parsed root of a row: the exception
\* its body raises ("none" when it runs to its end), the rows it inserts into
\* object_code_stage_report, and the bpversion of the root.  The global code
\* is the text of the first of global_code_tags that has text, as in
\* extract_first_text; an object that has global code raises NameError at
\* get_line_count, a name the module does not import, before any insert.
\* The statements after the loop over the code stages write other tables
\* only.
TryRoot(ptype, root) ==
  IF ptype = <<"O">> /\ extract_first_text(root, global_code_tags) # <<>>
  THEN [exc |-> "NameError", rows |-> <<>>,
        version |-> GetAttr(root[1], <<"b","p","v","e","r","s","i","o","n">>)]
  ELSE [exc |-> "none",
        rows |-> IF ptype = <<"O">> THEN StageRows(root, FindAllStages(root))
                 ELSE <<>>,
        version |-> GetAttr(root[1], <<"b","p","v","e","r","s","i","o","n">>)]

\* root = ET.fromstring(processxml) and what follows it
TryParsed(ptype, parsed) ==
  IF parsed.ok THEN TryRoot(ptype, parsed.ev)
  ELSE [exc |-> "ParseError", rows |-> <<>>, version |-> None]

\* the body of the try statement for one row of process_table; processxml
\* is None for a NULL column, which ET.fromstring rejects with a TypeError
TryRow(ptype, processxml) ==
  IF processxml = None
  THEN [exc |-> "TypeError", rows |-> <<>>, version |-> None]
  ELSE TryParsed(ptype, ET_fromstring(processxml))

\* the handlers without the except Exception clause
CaughtParseErrorOnly(exc) == exc = "ParseError"

\* the handlers of the try statement catch the exception: except
\* ET.ParseError, then except Exception
Caught(exc) ==
  exc = "ParseError" \/ exc \in {"ParseError", "TypeError", "NameError"}

\* bp_version after a row whose root carries the bpversion version
NextVersion(bp_version, version) ==
  IF bp_version = None \/ bp_version = <<>> THEN version ELSE bp_version

(***************************************************************************)
(* Bounds and the inputs drawn from them                                   *)
(***************************************************************************)
\* all strings over alphabet A of length at most n
StrUpTo(A, n) == UNION {[1..k -> A] : k \in 0..n}

\* longest input of the normalizer
MaxNormLen == 5
\* how often the normalizer is applied to its own output
NormCalls == 2

NormAlphabet == {"a", " ", "\n", "\r"}
NormInputs == StrUpTo(NormAlphabet, MaxNormLen) \cup {None}

\* most pieces of a blob handed to the extractor
MaxPieces == 4

\* the pieces blobs are made of: tags, whole elements, text, blanks with a
\* CRLF, and the broken tag of "<not xml"
XPieces ==
  { <<"<","s","t","a","g","e",">">>,
    <<"<","/","s","t","a","g","e",">">>,
    <<"<","c","o","d","e",">","f","o","o","<","/","c","o","d","e",">">>,
    <<"<","c","o","d","e",">"," ","<","/","c","o","d","e",">">>,
    <<"<","b","o","d","y",">","b"," ","\r","\n","c"," ","<","/","b","o","d","y",">">>,
    <<"<","u","n","k","n","o","w","n","t","a","g","/",">">>,
    <<"f","o","o">>,
    <<" ","\r","\n">>,
    <<"<","n","o","t"," ","x","m","l">> }

XPieceSeqs == StrUpTo(XPieces, MaxPieces)

\* most pieces of a code text handed to the classifier without a hint
MaxWords == 4

\* the pieces those code texts are made of
LPieces ==
  { <<"D","i","m">>,
    <<"I","f">>,
    <<"t","h","e","n">>,
    <<" ">>,
    <<"\n">>,
    <<"u","s","i","n","g">>,
    <<"p","u","b","l","i","c">>,
    <<"{">>,
    <<"}",";">> }

\* code texts classified under every hint: the three of the specification
\* and some with signals of both languages
LExamples ==
  { <<"D","i","m"," ","x"," ","A","s"," ","I","n","t","e","g","e","r">>,
    <<"p","u","b","l","i","c"," ","c","l","a","s","s"," ","X"," ","{"," ","}">>,
    <<"b","a","n","a","n","a">>,
    <<>>,
    <<"x"," ","="," ","1",";","\n","E","n","d"," ","I","f","\n","{"," ","}">>,
    <<"u","s","i","n","g"," ","S","y","s","t","e","m",";">> }

LPieceSeqs == StrUpTo(LPieces, MaxWords)

\* the hints detect_language can hand over: None, blank, Unknown, synonyms
\* of both families in several spellings, and other names
LHints ==
  { <<>>,
    <<" ">>,
    <<"U","n","k","n","o","w","n">>,
    <<"U","N","K","N","O","W","N"," ">>,
    <<"v","b">>,
    <<"V","B">>,
    <<"V","b",".","N","e","t">>,
    <<"v","i","s","u","a","l","b","a","s","i","c">>,
    <<"V","i","s","u","a","l"," ","B","a","s","i","c">>,
    <<"v","i","s","u","a","l","_","b","a","s","i","c">>,
    <<"c","#">>,
    <<"C","#">>,
    <<"C","S","h","a","r","p">>,
    <<"c","s">>,
    <<"c"," ","s","h","a","r","p">>,
    <<"J","a","v","a">> } \cup {None}

\* most pieces of a code text handed to the VB formatter
MaxVbPieces == 3

\* the pieces those code texts are made of: the head, the statements and
\* the Else of a single-line If, a line break, a block end, a colon and a
\* line continuation
VbPieces ==
  { <<"I","f"," ","x"," ",">"," ","0"," ","T","h","e","n">>,
    <<" ","y"," ","="," ","1">>,
    <<" ","E","l","s","e">>,
    <<" ","y"," ","="," ","2">>,
    <<"\n">>,
    <<"E","n","d"," ","I","f">>,
    <<":">>,
    <<" ","_">> }

VbPieceSeqs == StrUpTo(VbPieces, MaxVbPieces)

\* an If block with its Else, every statement on a line of its own
WellFormedIfElse ==
  <<"I","f"," ","x"," ",">"," ","0"," ","T","h","e","n","\n","y"," ","="," ","1","\n","E","l","s","e","\n","y"," ","="," ","2","\n","E","n","d"," ","I","f","\n","z"," ","="," ","3">>

\* VB code with blocks: nested, with alternatives, closed without having
\* been opened, and an If with its statement on the same line
BlockVb ==
  { <<"F","o","r"," ","i"," ","="," ","1"," ","T","o"," ","3","\n","I","f"," ","a"," ","T","h","e","n","\n","b","\n","E","n","d"," ","I","f","\n","N","e","x","t","\n","z">>,
    <<"E","l","s","e","\n","y"," ","="," ","1">>,
    <<"I","f"," ","T","h","e","n"," ","y"," ","="," ","1","\n","z"," ","="," ","2">>,
    <<"E","n","d"," ","I","f","\n","E","n","d"," ","I","f","\n","x">>,
    <<"T","r","y","\n","a","(",")","\n","C","a","t","c","h"," ","e","x","\n","b","(",")","\n","F","i","n","a","l","l","y","\n","c","(",")">>,
    <<"W","i","t","h"," ","o","\n","I","f"," ","a"," ","T","h","e","n","\n","b","\n","E","l","s","e","I","f"," ","c"," ","T","h","e","n","\n","d","\n","E","n","d"," ","I","f","\n","E","n","d"," ","W","i","t","h">> }

\* VB code with continued lines
ContinuedVb ==
  { <<"a"," ","_","\n","b">>,
    <<"a"," ","_","\n"," "," ","b"," ","_","\n","\t","c">>,
    <<"a"," "," ","\t","_","\n"," ","b"," "," ","\n","c">>,
    <<"a"," ","_","\n","b","\n","c"," ","_">>,
    <<"x"," "," ","\n","y"," ","_","\n","z","\n","w">>,
    <<"a","_","\n","b">>,
    <<"a"," ","_"," ","_","\n","b">>,
    <<"a"," ","_"," ","_">>,
    <<"a"," ","_","\n","_","\n","b">>,
    <<"a"," ","_","\n","\n","b">>,
    <<"a"," ","_","\r","\n"," "," ","b"," ",":"," ","c"," ","_">> }

\* VB code with a quote that is not closed, with a continuation marker that
\* nothing follows
MalformedVb ==
  { <<"x"," ","="," ","\"","a"," ",":"," ","b">>,
    <<"I","f"," ","x"," ","T","h","e","n"," ","y"," ","="," ","\"">>,
    <<"y"," ","="," ","1"," ","_">>,
    <<"\""," ","_","\n","\"","\""," ",":"," ","\"","z">>,
    <<"D","i","m"," ","s"," ","="," ","\"","a","\"","\"","b"," ",":"," ","c"," ","_","\n">> }

\* the code and the language arguments pretty_print_code is called with
PrettyCodes ==
  { None,
    <<>>,
    <<" "," ","\n","\t"," ">>,
    <<"i","f","(","x",")","{","a","(",")",";","}">>,
    <<"I","f"," ","a"," ","T","h","e","n","\n","b","\n","E","n","d"," ","I","f">>,
    <<"a","\t"," ","b"," "," ","\n","\n","\n","\n","c"," "," "," ","\n"," "," ","d">>,
    <<"x","\n"," ","\n","\t","\n","y","\t","z">> }

PrettyLangs ==
  { None,
    <<>>,
    <<" "," ">>,
    <<"C","#">>,
    <<"c","#">>,
    <<" ","C","S","h","a","r","p"," ">>,
    <<"c","s">>,
    <<"C"," ","S","h","a","r","p">>,
    <<"V","B">>,
    <<"v","b",".","n","e","t">>,
    <<"V","i","s","u","a","l","B","a","s","i","c">>,
    <<"V","i","s","u","a","l"," ","B","a","s","i","c">>,
    <<"v","i","s","u","a","l","_","b","a","s","i","c">>,
    <<"U","n","k","n","o","w","n">>,
    <<"J","a","v","a">>,
    <<"v","b","s">>,
    <<"c","#","#">> }

\* C# code with a block inside a block
NestedBlocks ==
  { <<"a","{","b","{","c",";","}","d",";","}","e",";">>,
    <<"c","l","a","s","s"," ","A","{","v","o","i","d"," ","f","(",")","{","i","f","(","x",")","{","a","(",")",";","}","b","(",")",";","}","i","n","t"," ","y",";","}">>,
    <<"{","{","x",";","}","}">> }

\* C# code with tabs and runs of blanks inside string literals and
\* outside of them
BlankedStrings ==
  { <<"s"," ","="," ","\"","a","\t","b","\"">>,
    <<"x"," "," ","="," "," "," ","\"","a"," "," ","b","\""," "," "," ","+"," "," ","1">>,
    <<"s","\t","=","\t","\"","a"," ","\\","\""," ","b","\"","\t","\t">>,
    <<"i","f","(","x",")","{"," "," ","s"," "," ","="," "," ","\"","a","\t","\t","b","\""," "," ",";"," ","}">>,
    <<"a","("," "," ","\"","x"," "," "," ","y","\""," ",",","\t","\"","\""," ",")"," ",";"," "," ","b"," "," ","="," "," ","\""," ","\"">> }

\* C# code with braces that do not match, with a quote that is not closed
MalformedCs ==
  { <<"}","}","{"," ","a","(",";"," ","\"","x">>,
    <<"i","f","(","x",")","{"," ","s"," ","="," ","\"","a","\\","\"">>,
    <<"{","{","{">>,
    <<"f","o","r","(",";",";">>,
    <<"}"," ","e","l","s","e"," ","{"," ","\"">> }

\* lines that hold one statement: statements that start with a keyword of
\* two words, identifiers that hold the letters of a keyword
SingleStatements ==
  { <<"E","n","d"," ","T","r","y">>,
    <<"S","e","l","e","c","t"," ","C","a","s","e"," ","x">>,
    <<"E","l","s","e","I","f"," ","c"," ","T","h","e","n">>,
    <<"D","o"," ","W","h","i","l","e"," ","c">>,
    <<"x","d","i","m"," ","="," ","1">>,
    <<"c","o","u","n","t","r","y"," ","="," ","1">>,
    <<"D","i","m"," ","x"," ","="," ","1">>,
    <<"y"," ","="," ","1">> }

\* the lines handed to the while loops of the colon and mid-line splits
ScanLines ==
  { <<"x"," ","="," ","\"","a"," ",":"," ","b">>,
    <<"s"," ","="," ","\"","a","\"","\"","b","\""," ",":"," ","y">>,
    <<"\"","\"",":","\"","\""," ",":"," ","\"">>,
    <<"a"," ","D","i","m"," ","b"," ","\"","I","f"," ","c">>,
    <<"x"," ","R","e","t","u","r","n"," ","\"","\""," ","\"","y"," ","I","f">>,
    <<":",":",":"," ","\"">> }

\* the statements of the single-line Ifs handed to the VB formatter
VbStatements == { <<" ","y"," ","="," ","1">>, <<" ","y"," ","="," ","2">> }

\* If x > 0 Then <s1> Else <s2> on one line
IfThenElseOnOneLine(s1, s2) ==
  <<"I","f"," ","x"," ",">"," ","0"," ","T","h","e","n">> \o s1
    \o <<" ","E","l","s","e">> \o s2

\* the statements of the single-line Ifs without Else: assignments and
\* statements that start with a statement keyword
VbThenStatements ==
  VbStatements \cup { <<" ","R","e","t","u","r","n">>,
                      <<" ","E","x","i","t"," ","S","u","b">>,
                      <<" ","D","i","m"," ","z"," ","="," ","3">> }

\* If x > 0 Then <stmt> on one line
IfThenOnOneLine(stmt) ==
  <<"I","f"," ","x"," ",">"," ","0"," ","T","h","e","n">> \o stmt

\* most pieces of a code text handed to the C# formatter
MaxCsPieces == 3

\* the pieces those code texts are made of: the head of an if, braces, a
\* statement, an else, a for header, an assignment of a string literal that
\* holds a semicolon and braces, and a line break
CsPieces ==
  { <<"i","f","(","x",")">>,
    <<"{">>,
    <<"}">>,
    <<"a","(",")",";">>,
    <<"e","l","s","e">>,
    <<"f","o","r","(","i","n","t"," ","i","=","0",";","i","<","n",";","i","+","+",")">>,
    <<"s"," ","="," ","\"","a",";","{","b","}","\"",";">>,
    <<"\n">> }

CsPieceSeqs == StrUpTo(CsPieces, MaxCsPieces)

\* the statements of the blocks handed to the C# formatter
CsStatements == { <<"a","(",")",";">>, <<"b","(",")",";">> }

\* if(x){<s1>}else{<s2>} on one line
IfElseOnOneLine(s1, s2) ==
  <<"i","f","(","x",")","{">> \o s1 \o <<"}","e","l","s","e","{">> \o s2 \o <<"}">>

\* }}}code(); : more closing braces than opening ones
ClosersThenCode == <<"}","}","}","c","o","d","e","(",")",";">>

\* a for header on a line of its own
ForHeader == <<"f","o","r","(","i","n","t"," ","i","=","0",";","i","<","n",";","i","+","+",")">>

\* an assignment whose string literal holds a semicolon
StringWithSemicolon == <<"x"," ","="," ","\"","a",";","b","\"",";">>

\* longest line handed to the colon split
MaxColonLen == 7

\* the characters of those lines: a letter, a blank, a colon and a quote
ColonAlphabet == {"a", " ", ":", "\""}
ColonLines == StrUpTo(ColonAlphabet, MaxColonLen)

\* most pieces of a code text handed to simple_code_findings
MaxFindPieces == 3

\* the pieces those code texts are made of: words of the credential
\* patterns, blanks and equals signs, URLs in both schemes and in capitals,
\* a quote, and a word of each other category
FindPieces ==
  { <<"p","a","s","s","w","o","r","d">>,
    <<"P","W","D">>,
    <<" ">>,
    <<"=">>,
    <<"b","e","a","r","e","r">>,
    <<"T","o","k","e","n">>,
    <<"h","t","t","p",":","/","/","a">>,
    <<"h","t","t","p","s",":","/","/","b">>,
    <<"H","T","T","P",":","/","/","c">>,
    <<"\"">>,
    <<"S","e","l","e","c","t"," ">>,
    <<"s","h","a">>,
    <<"F","i","l","e",".">>,
    <<"G","e","t","T","y","p","e","(">>,
    <<"S","h","e","l","l","(">>,
    <<"S","e","s","s","i","o","n">> }

FindPieceSeqs == StrUpTo(FindPieces, MaxFindPieces)

\* password = "abc123"
PasswordExample == <<"p","a","s","s","w","o","r","d"," ","="," ","\"","a","b","c","1","2","3","\"">>

Digits == <<"0","1","2","3","4","5","6","7","8","9">>

\* http://nn for n below 100
UrlNo(n) ==
  <<"h","t","t","p",":","/","/">>
    \o <<Digits[(n \div 10) + 1], Digits[(n % 10) + 1]>>

\* more distinct URLs than simple_code_findings keeps, the largest first,
\* and the smallest of them once again at the end
ManyUrls ==
  Join([n \in 1..(UrlLimit + 2) |-> UrlNo(UrlLimit + 2 - n)], <<" ">>)
    \o <<" ">> \o UrlNo(0)

\* most code stages of a process
MaxStages == 2

\* what a code stage holds for its language: nothing, or a language element
DLanguagePieces ==
  { <<>>,
    <<"<","l","a","n","g","u","a","g","e",">","V","B","<","/","l","a","n","g","u","a","g","e",">">>,
    <<"<","l","a","n","g","u","a","g","e",">","C","#","<","/","l","a","n","g","u","a","g","e",">">> }

\* what a code stage holds for its code: nothing, a single-line If, the
\* same If in another element with blanks and a CRLF around it, statements
\* with semicolons and braces, a lone semicolon
DCodePieces ==
  { <<>>,
    <<"<","c","o","d","e",">",";","<","/","c","o","d","e",">">>,
    <<"<","c","o","d","e",">","I","f"," ","a"," ","T","h","e","n"," ","b","<","/","c","o","d","e",">">>,
    <<"<","t","e","x","t",">"," ","I","f"," ","a"," ","T","h","e","n"," ","b","\r","\n","<","/","t","e","x","t",">">>,
    <<"<","c","o","d","e",">","x"," ","="," ","1",";"," ","{"," ","y"," ","}","<","/","c","o","d","e",">">> }

\* <stage type='Code'> language code </stage>
DCodeStages ==
  {<<"<","s","t","a","g","e"," ","t","y","p","e","=","'","C","o","d","e","'",">">>
     \o l \o c \o <<"<","/","s","t","a","g","e",">">> :
     l \in DLanguagePieces, c \in DCodePieces}

\* stages that hold code and are not of type Code: another type, no type
DOtherStages ==
  { <<"<","s","t","a","g","e"," ","t","y","p","e","=","\"","D","a","t","a","\"",">",
      "<","c","o","d","e",">","I","f"," ","a"," ","T","h","e","n"," ","b","<","/","c","o","d","e",">",
      "<","/","s","t","a","g","e",">">>,
    <<"<","s","t","a","g","e",">",
      "<","c","o","d","e",">","x"," ","="," ","1",";"," ","{"," ","y"," ","}","<","/","c","o","d","e",">",
      "<","/","s","t","a","g","e",">">> }

DStages == DCodeStages \cup DOtherStages

DStageSeqs == StrUpTo(DStages, MaxStages)

\* processxml of an object with the code stages ss
ProcessXml(ss) ==
  <<"<","p","r","o","c","e","s","s",">">> \o Flatten(ss)
    \o <<"<","/","p","r","o","c","e","s","s",">">>

\* processxml that does not parse
BrokenXml == <<"<","p","r","o","c","e","s","s",">","<","s","t","a","g","e",">">>

\* most rows of process_table
MaxBatch == 3

\* the (ProcessType, processxml) of those rows: objects with one and with
\* two code stages, the second with a bpversion, an object whose XML does
\* not parse, an object without XML, an object with global code and a code
\* stage, and a process with a code stage
BatchRows ==
  { <<<<"O">>, <<"<","p","r","o","c","e","s","s",">","<","s","t","a","g","e"," ","t","y","p","e","=","'","C","o","d","e","'",">","<","l","a","n","g","u","a","g","e",">","C","#","<","/","l","a","n","g","u","a","g","e",">","<","c","o","d","e",">","x"," ","="," ","1",";"," ","{"," ","y"," ","}","<","/","c","o","d","e",">","<","/","s","t","a","g","e",">","<","/","p","r","o","c","e","s","s",">">>>>,
    <<<<"O">>, <<"<","p","r","o","c","e","s","s"," ","b","p","v","e","r","s","i","o","n","=","\"","6","\"",">","<","s","t","a","g","e"," ","t","y","p","e","=","'","C","o","d","e","'",">","<","c","o","d","e",">","I","f"," ","a"," ","T","h","e","n"," ","b","<","/","c","o","d","e",">","<","/","s","t","a","g","e",">","<","s","t","a","g","e"," ","t","y","p","e","=","'","C","o","d","e","'",">","<","l","a","n","g","u","a","g","e",">","C","#","<","/","l","a","n","g","u","a","g","e",">","<","c","o","d","e",">","x"," ","="," ","1",";"," ","{"," ","y"," ","}","<","/","c","o","d","e",">","<","/","s","t","a","g","e",">","<","/","p","r","o","c","e","s","s",">">>>>,
    <<<<"O">>, BrokenXml>>,
    <<<<"O">>, None>>,
    <<<<"O">>, <<"<","p","r","o","c","e","s","s",">","<","g","l","o","b","a","l","c","o","d","e",">","g","<","/","g","l","o","b","a","l","c","o","d","e",">","<","s","t","a","g","e"," ","t","y","p","e","=","'","C","o","d","e","'",">","<","l","a","n","g","u","a","g","e",">","C","#","<","/","l","a","n","g","u","a","g","e",">","<","c","o","d","e",">","x"," ","="," ","1",";"," ","{"," ","y"," ","}","<","/","c","o","d","e",">","<","/","s","t","a","g","e",">","<","/","p","r","o","c","e","s","s",">">>>>,
    <<<<"P">>, <<"<","p","r","o","c","e","s","s",">","<","s","t","a","g","e"," ","t","y","p","e","=","'","C","o","d","e","'",">","<","l","a","n","g","u","a","g","e",">","C","#","<","/","l","a","n","g","u","a","g","e",">","<","c","o","d","e",">","x"," ","="," ","1",";"," ","{"," ","y"," ","}","<","/","c","o","d","e",">","<","/","s","t","a","g","e",">","<","/","p","r","o","c","e","s","s",">">>>> }

BatchRowSeqs == StrUpTo(BatchRows, MaxBatch)

(***************************************************************************)
(* State                                                                   *)
(***************************************************************************)
VARIABLES
  nIn,      \* normalizer: the argument of the first call
  nHist,    \* normalizer: the results of the successive calls
  xIn,      \* extractor: code_text
  xPc,      \* extractor: "call" before the call, "done" after it
  xRes,     \* extractor: what the call returned or raised
  lHint,    \* classifier: the language argument
  lCode,    \* classifier: the code argument
  lPc,      \* classifier: "call" before the call, "done" after it
  lRes,     \* classifier: the language returned
  vbIn,     \* VB formatter: the code argument
  vbPc,     \* VB formatter: the step that comes next
  vbLines,  \* VB formatter: the lines the next step works on
  vbSt,     \* VB formatter: indent and out of the loop over the lines
  vbOut,    \* VB formatter: the string returned
  csIn,     \* C# formatter: the code argument
  csPc,     \* C# formatter: the step that comes next
  csLines,  \* C# formatter: the lines the loop has not yet visited
  csSt,     \* C# formatter: indent and out of the loop over the lines
  csOut,    \* C# formatter: the string returned
  clIn,     \* colon split: one of the joined lines
  clPc,     \* colon split: "call" before the pass, "done" after it
  clOut,    \* colon split: what the pass added to split_lines
  fIn,      \* findings: the code argument
  fPc,      \* findings: "call" before the call, "done" after it
  fRes,     \* findings: the dict returned
  bOnly,    \* batch: only_process_type
  bIn,      \* batch: the rows fetch_process_data returned
  bAt,      \* batch: the index of the row the loop comes to next
  bOut,     \* batch: for every row visited, what its pass did
  bVersion, \* batch: bp_version
  bPc,      \* batch: "loop", "returned" or "raised"
  bRet,     \* batch: the dict returned
  ppCode,   \* dispatch: the code argument of pretty_print_code
  ppLang,   \* dispatch: the language argument
  ppPc,     \* dispatch: "call" before the call, "done" after it
  ppOut,    \* dispatch: the string returned
  scLoop,   \* scan: the loop run, that of the colon or of the mid-line split
  scLine,   \* scan: the line argument
  scSt,     \* scan: i, cur, in_string and parts of the while loop
  scPc,     \* scan: "scan" inside the loop, "done" once it has returned
  scOut,    \* scan: the parts returned
  tIn,      \* calls in flight: the code argument of every call
  tLang,    \* calls in flight: the language argument of every call
  tPc,      \* calls in flight: the step every call comes to next
  tLines,   \* calls in flight: the lines the loop of a call has to visit
  tFor,     \* calls in flight: in_for and out of the semicolon loop
  tSt,      \* calls in flight: indent and out of the indenting loop
  tOut,     \* calls in flight: the string every call returned
  ldExists, \* load: csv_path.exists()
  ldCsv,    \* load: the rows of the CSV file, in file order
  ldChunk,  \* load: chunk_size
  ldReplace, \* load: replace
  ldTable,  \* load: the rows of the target table, in insertion order
  ldAt,     \* load: the CSV row the next chunk starts at
  ldPc,     \* load: the step that comes next
  dXml,     \* details: processxml
  dPc,      \* details: the step that comes next
  dRoot,    \* details: the events of the parsed root
  dTodo,    \* details: the code stages not yet visited
  dRows     \* details: the rows of object_code_stage_report

NormVars == <<nIn, nHist>>
ExtractVars == <<xIn, xPc, xRes>>
LangVars == <<lHint, lCode, lPc, lRes>>
VbVars == <<vbIn, vbPc, vbLines, vbSt, vbOut>>
CsVars == <<csIn, csPc, csLines, csSt, csOut>>
ColonVars == <<clIn, clPc, clOut>>
FindVars == <<fIn, fPc, fRes>>
BatchVars == <<bOnly, bIn, bAt, bOut, bVersion, bPc, bRet>>
PrettyVars == <<ppCode, ppLang, ppPc, ppOut>>
ScanVars == <<scLoop, scLine, scSt, scPc, scOut>>
LoadVars == <<ldExists, ldCsv, ldChunk, ldReplace, ldTable, ldAt, ldPc>>
ParVars == <<tIn, tLang, tPc, tLines, tFor, tSt, tOut>>
DetailsVars == <<dXml, dPc, dRoot, dTodo, dRows>>
vars == <<nIn, nHist, xIn, xPc, xRes, lHint, lCode, lPc, lRes, vbIn, vbPc,
          vbLines, vbSt, vbOut, csIn, csPc, csLines, csSt, csOut, clIn,
          clPc, clOut, fIn, fPc, fRes, bOnly, bIn, bAt, bOut, bVersion,
          bPc, bRet, ppCode, ppLang, ppPc, ppOut, scLoop, scLine, scSt,
          scPc, scOut, tIn, tLang, tPc, tLines, tFor, tSt, tOut, ldExists,
          ldCsv, ldChunk, ldReplace, ldTable, ldAt, ldPc, dXml, dPc, dRoot,
          dTodo, dRows>>

(***************************************************************************)
(* The normalizer applied to an input and then to its own output           *)
(***************************************************************************)
NormIdle == nIn = <<>> /\ nHist = <<>>

NormInit == nIn \in NormInputs /\ nHist = <<>>

NormalizeCall ==
  /\ Len(nHist) < NormCalls
  /\ nHist' = Append(nHist, normalize_code(IF nHist = <<>> THEN nIn
                                            ELSE nHist[Len(nHist)]))
  /\ UNCHANGED nIn

(***************************************************************************)
(* One call of the extractor                                               *)
(***************************************************************************)
Pending == [ok |-> FALSE, exc |-> "pending"]

ExtractIdle == xIn = <<>> /\ xPc = "idle" /\ xRes = Pending

ExtractInit ==
  /\ \/ \E ps \in XPieceSeqs : xIn = Flatten(ps)
     \/ xIn = None
  /\ xPc = "call"
  /\ xRes = Pending

ExtractCall ==
  /\ xPc = "call"
  /\ xRes' = extract_code_from_possible_stage_xml(xIn)
  /\ xPc' = "done"
  /\ UNCHANGED xIn

(***************************************************************************)
(* One call of the classifier                                              *)
(***************************************************************************)
LangIdle == lHint = <<>> /\ lCode = <<>> /\ lPc = "idle" /\ lRes = <<>>

LangInit ==
  /\ \/ lHint \in LHints /\ lCode \in LExamples
     \/ lHint = None /\ \E ps \in LPieceSeqs : lCode = Flatten(ps)
  /\ lPc = "call"
  /\ lRes = <<>>

InferCall ==
  /\ lPc = "call"
  /\ lRes' = infer_language_from_code(lHint, lCode)
  /\ lPc' = "done"
  /\ UNCHANGED <<lHint, lCode>>

\* the lines step 1 starts from, none when the code is empty
VbFirstLines(code) ==
  IF code = <<>> THEN <<>> ELSE Split(CrToLf(code), "\n")

\* the lines of what split_vb_one_liners returns, none when that is empty
VbLastLines(code) ==
  IF code = <<>> THEN <<>> ELSE Split(TabsToSpaces(code), "\n")

(***************************************************************************)
(* pretty_print_vb_blocks, step by step                                    *)
(***************************************************************************)
VbIdle ==
  /\ vbIn = <<>> /\ vbPc = "idle" /\ vbLines = <<>>
  /\ vbSt = [indent |-> 0, out |-> <<>>] /\ vbOut = <<>>

VbInit ==
  /\ \/ \E ps \in VbPieceSeqs : vbIn = Flatten(ps)
     \/ \E s1, s2 \in VbStatements : vbIn = IfThenElseOnOneLine(s1, s2)
     \/ \E stmt \in VbThenStatements : vbIn = IfThenOnOneLine(stmt)
     \/ vbIn \in MalformedVb \cup ContinuedVb
     \/ vbIn \in BlockVb \cup {WellFormedIfElse}
  /\ vbPc = "start" /\ vbLines = <<>>
  /\ vbSt = [indent |-> 0, out |-> <<>>] /\ vbOut = <<>>

\* normalize_code, the test for empty code and the CR/LF replacement
VbStart ==
  /\ vbPc = "start"
  /\ vbLines' = VbFirstLines(normalize_code(vbIn))
  /\ vbPc' = IF vbLines' = <<>> THEN "done" ELSE "join"
  /\ UNCHANGED <<vbIn, vbSt, vbOut>>

\* step 1: join the continued lines
VbJoin ==
  /\ vbPc = "join"
  /\ vbLines' = JoinLoop(vbLines, <<>>, <<>>)
  /\ vbPc' = "colons"
  /\ UNCHANGED <<vbIn, vbSt, vbOut>>

\* step 2: split at colons outside strings
VbColons ==
  /\ vbPc = "colons"
  /\ vbLines' = SplitColonsAll(vbLines)
  /\ vbPc' = "midline"
  /\ UNCHANGED <<vbIn, vbSt, vbOut>>

\* step 2.5: split before statement keywords inside a line
VbMidline ==
  /\ vbPc = "midline"
  /\ vbLines' = SplitMidlineAll(vbLines)
  /\ vbPc' = "ifs"
  /\ UNCHANGED <<vbIn, vbSt, vbOut>>

\* step 3: expand the single-line Ifs; split_vb_one_liners returns and
\* pretty_print_vb_blocks splits what it returned into lines
VbIfs ==
  /\ vbPc = "ifs"
  /\ vbLines' = VbLastLines(JoinedAndCollapsed(ExpandIfs(vbLines)))
  /\ vbPc' = IF vbLines' = <<>> THEN "done" ELSE "indent"
  /\ UNCHANGED <<vbIn, vbSt, vbOut>>

\* one pass of the for loop over the lines
VbIndentLine ==
  /\ vbPc = "indent"
  /\ vbLines # <<>>
  /\ vbSt' = IndentVbLine(vbSt, Head(vbLines))
  /\ vbLines' = Tail(vbLines)
  /\ UNCHANGED <<vbIn, vbPc, vbOut>>

VbReturn ==
  /\ vbPc = "indent"
  /\ vbLines = <<>>
  /\ vbOut' = Strip(Join(vbSt.out, <<"\n">>))
  /\ vbPc' = "done"
  /\ UNCHANGED <<vbIn, vbLines, vbSt>>

(***************************************************************************)
(* pretty_print_csharp_braces, step by step                                *)
(***************************************************************************)
CsIdle ==
  /\ csIn = <<>> /\ csPc = "idle" /\ csLines = <<>>
  /\ csSt = [indent |-> 0, out |-> <<>>] /\ csOut = <<>>

CsInit ==
  /\ \/ \E ps \in CsPieceSeqs : csIn = Flatten(ps)
     \/ \E s1, s2 \in CsStatements : csIn = IfElseOnOneLine(s1, s2)
     \/ csIn \in {ClosersThenCode, ForHeader, StringWithSemicolon}
     \/ csIn \in MalformedCs \cup BlankedStrings \cup NestedBlocks
  /\ csPc = "split" /\ csLines = <<>>
  /\ csSt = [indent |-> 0, out |-> <<>>] /\ csOut = <<>>

\* the lines of what split_csharp_one_liners returned
CsLinesOf(code) ==
  IF code = <<>> THEN <<>> ELSE Split(TabsToSpaces(code), "\n")

\* code = split_csharp_one_liners(code), the test for empty code and the
\* split into lines
CsSplit ==
  /\ csPc = "split"
  /\ csLines' = CsLinesOf(split_csharp_one_liners(csIn))
  /\ csPc' = IF csLines' = <<>> THEN "done" ELSE "indent"
  /\ UNCHANGED <<csIn, csSt, csOut>>

\* one pass of the for loop over the lines
CsIndentLine ==
  /\ csPc = "indent"
  /\ csLines # <<>>
  /\ csSt' = IndentCsLine(csSt, Head(csLines))
  /\ csLines' = Tail(csLines)
  /\ UNCHANGED <<csIn, csPc, csOut>>

CsReturn ==
  /\ csPc = "indent"
  /\ csLines = <<>>
  /\ csOut' = Strip(Join(csSt.out, <<"\n">>))
  /\ csPc' = "done"
  /\ UNCHANGED <<csIn, csLines, csSt>>

(***************************************************************************)
(* One pass of the loop of split_vb_one_liners that splits at colons       *)
(***************************************************************************)
ColonIdle == clIn = <<>> /\ clPc = "idle" /\ clOut = <<>>

ColonInit == clIn \in ColonLines /\ clPc = "call" /\ clOut = <<>>

\* raw = raw.strip(); an empty line for a blank raw, else the parts of
\* split_colons_outside_strings(raw)
ColonCall ==
  /\ clPc = "call"
  /\ clOut' = SplitColonsAll(<<clIn>>)
  /\ clPc' = "done"
  /\ UNCHANGED clIn

(***************************************************************************)
(* One call of simple_code_findings                                        *)
(***************************************************************************)
FindIdle == fIn = <<>> /\ fPc = "idle" /\ fRes = <<>>

FindInit ==
  /\ \/ \E ps \in FindPieceSeqs : fIn = Flatten(ps)
     \/ fIn \in {None, PasswordExample, ManyUrls}
  /\ fPc = "call" /\ fRes = <<>>

FindCall ==
  /\ fPc = "call"
  /\ fRes' = simple_code_findings(fIn)
  /\ fPc' = "done"
  /\ UNCHANGED fIn

(***************************************************************************)
(* run_details on one object: parse, then one row per code stage           *)
(***************************************************************************)
\* the events of the root, none after a ParseError
EventsOf(root) == IF root.ok THEN root.ev ELSE <<>>

DetailsIdle ==
  dXml = <<>> /\ dPc = "idle" /\ dRoot = <<>> /\ dTodo = <<>> /\ dRows = <<>>

DetailsInit ==
  /\ \/ \E ss \in DStageSeqs : dXml = ProcessXml(ss)
     \/ dXml = BrokenXml
  /\ dPc = "parse" /\ dRoot = <<>> /\ dTodo = <<>> /\ dRows = <<>>

\* root = ET.fromstring(processxml); a ParseError skips the process
DetailsParse ==
  /\ dPc = "parse"
  /\ dRoot' = EventsOf(ET_fromstring(dXml))
  /\ dTodo' = FindAllStages(dRoot')
  /\ dPc' = IF dRoot' = <<>> THEN "done" ELSE "stages"
  /\ UNCHANGED <<dXml, dRows>>

\* one pass of the loop over the code stages
DetailsStage ==
  /\ dPc = "stages"
  /\ dTodo # <<>>
  /\ dRows' = Append(dRows, StageRow(dRoot, Head(dTodo)))
  /\ dTodo' = Tail(dTodo)
  /\ UNCHANGED <<dXml, dPc, dRoot>>

DetailsDone ==
  /\ dPc = "stages"
  /\ dTodo = <<>>
  /\ dPc' = "done"
  /\ UNCHANGED <<dXml, dRoot, dTodo, dRows>>

(***************************************************************************)
(* run_details on the rows of process_table (name_like is None)            *)
(***************************************************************************)
BatchIdle ==
  /\ bOnly = None /\ bIn = <<>> /\ bAt = 0 /\ bOut = <<>>
  /\ bVersion = None /\ bPc = "idle" /\ bRet = <<>>

BatchInit ==
  /\ bOnly \in {None, <<"O">>}
  /\ bIn \in BatchRowSeqs
  /\ bAt = 1 /\ bOut = <<>> /\ bVersion = None /\ bPc = "loop" /\ bRet = <<>>

\* a row that only_process_type leaves out: continue
BatchSkip ==
  /\ bPc = "loop" /\ bAt <= Len(bIn)
  /\ bOnly # None /\ bIn[bAt][1] # bOnly
  /\ bOut' = Append(bOut, [exc |-> "skipped", rows |-> <<>>, version |-> None])
  /\ bAt' = bAt + 1
  /\ UNCHANGED <<bOnly, bIn, bVersion, bPc, bRet>>

\* one pass of the loop for a row that is not left out: the try statement;
\* an exception no handler catches leaves run_details
BatchRow ==
  /\ bPc = "loop" /\ bAt <= Len(bIn)
  /\ ~(bOnly # None /\ bIn[bAt][1] # bOnly)
  /\ bOut' = Append(bOut, TryRow(bIn[bAt][1], bIn[bAt][2]))
  /\ bVersion' = NextVersion(bVersion, bOut'[bAt].version)
  /\ bPc' = IF bOut'[bAt].exc = "none" \/ Caught(bOut'[bAt].exc)
            THEN "loop" ELSE "raised"
  /\ bAt' = bAt + 1
  /\ UNCHANGED <<bOnly, bIn, bRet>>

\* return {"bp_version": bp_version}
BatchReturn ==
  /\ bPc = "loop" /\ bAt > Len(bIn)
  /\ bRet' = [bp_version |-> bVersion]
  /\ bPc' = "returned"
  /\ UNCHANGED <<bOnly, bIn, bAt, bOut, bVersion>>

(***************************************************************************)
(* Calls of pretty_print_code in flight at the same time                   *)
(***************************************************************************)
MaxCalls == 2
Calls == 1..MaxCalls

\* the blobs the calls are given: <<language, code>>
ParBlobs ==
  { <<CSharp, <<"i","f","(","x",")","{","a","(",")",";","}">>>>,
    <<CSharp, <<"f","o","r","(","i","=","0",";","\n","i","<","n",";","i","+","+",")","{","b","(",")",";","}">>>>,
    <<VB, <<"I","f"," ","a"," ","T","h","e","n","\n","b","\n","E","n","d"," ","I","f">>>>,
    <<VB, <<"x"," ","="," ","\"","a",":","b","\""," ",":"," ","y"," ","="," ","1">>>> }

\* the locals kept in one place for all the calls
FrameOfFirstCall(locals, c) == locals[1]

\* the locals of call c: every call has a frame of its own
Frame(locals, c) == locals[c]

ParIdle ==
  /\ tIn = [c \in Calls |-> <<>>] /\ tLang = [c \in Calls |-> <<>>]
  /\ tPc = [c \in Calls |-> "idle"] /\ tLines = [c \in Calls |-> <<>>]
  /\ tFor = [c \in Calls |-> [in_for |-> FALSE, out |-> <<>>]]
  /\ tSt = [c \in Calls |-> [indent |-> 0, out |-> <<>>]]
  /\ tOut = [c \in Calls |-> <<>>]

ParInit ==
  /\ \E b \in [Calls -> ParBlobs] :
       /\ tLang = [c \in Calls |-> b[c][1]]
       /\ tIn = [c \in Calls |-> b[c][2]]
  /\ tPc = [c \in Calls |-> "start"] /\ tLines = [c \in Calls |-> <<>>]
  /\ tFor = [c \in Calls |-> [in_for |-> FALSE, out |-> <<>>]]
  /\ tSt = [c \in Calls |-> [indent |-> 0, out |-> <<>>]]
  /\ tOut = [c \in Calls |-> <<>>]

\* pretty_print_code up to the loop of the formatter it calls: for C# the
\* lines of s in split_csharp_one_liners, for VB the lines of what
\* split_vb_one_liners returned
ParStart ==
  \E c \in Calls :
    /\ tPc[c] = "start"
    /\ LET code == normalize_code(tIn[c])
           language == normalize_language(tLang[c])
       IN  /\ tLines' = [tLines EXCEPT ![c] =
                IF code = <<>> THEN <<>>
                ELSE IF language = CSharp
                THEN Split(BracesOnOwnLines(code), "\n")
                ELSE VbLastLines(split_vb_one_liners(normalize_code(code)))]
           /\ tPc' = [tPc EXCEPT ![c] =
                IF code = <<>> THEN "done"
                ELSE IF language = CSharp THEN "semicolons"
                ELSE IF tLines'[c] = <<>> THEN "done" ELSE "indent"]
    /\ UNCHANGED <<tIn, tLang, tFor, tSt, tOut>>

\* one pass of the loop of split_csharp_one_liners over the lines of s
ParSemicolons ==
  \E c \in Calls :
    /\ tPc[c] = "semicolons"
    /\ tLines[c] # <<>>
    /\ tFor' = [tFor EXCEPT ![c] = SemicolonPass(Frame(tFor, c), Head(tLines[c]))]
    /\ tLines' = [tLines EXCEPT ![c] = Tail(tLines[c])]
    /\ UNCHANGED <<tIn, tLang, tPc, tSt, tOut>>

\* split_csharp_one_liners returns; the test for empty code and the split
\* into lines of pretty_print_csharp_braces
ParSplit ==
  \E c \in Calls :
    /\ tPc[c] = "semicolons"
    /\ tLines[c] = <<>>
    /\ tLines' = [tLines EXCEPT ![c] =
                    CsLinesOf(JoinedAndCollapsed(Frame(tFor, c).out))]
    /\ tPc' = [tPc EXCEPT ![c] = IF tLines'[c] = <<>> THEN "done" ELSE "indent"]
    /\ UNCHANGED <<tIn, tLang, tFor, tSt, tOut>>

\* one pass of the indenting loop of pretty_print_csharp_braces or of
\* pretty_print_vb_blocks
ParIndentLine ==
  \E c \in Calls :
    /\ tPc[c] = "indent"
    /\ tLines[c] # <<>>
    /\ tSt' = [tSt EXCEPT ![c] =
                 IF normalize_language(tLang[c]) = CSharp
                 THEN IndentCsLine(Frame(tSt, c), Head(tLines[c]))
                 ELSE IndentVbLine(Frame(tSt, c), Head(tLines[c]))]
    /\ tLines' = [tLines EXCEPT ![c] = Tail(tLines[c])]
    /\ UNCHANGED <<tIn, tLang, tPc, tFor, tOut>>

\* return "\n".join(out).strip()
ParReturn ==
  \E c \in Calls :
    /\ tPc[c] = "indent"
    /\ tLines[c] = <<>>
    /\ tOut' = [tOut EXCEPT ![c] = Strip(Join(Frame(tSt, c).out, <<"\n">>))]
    /\ tPc' = [tPc EXCEPT ![c] = "done"]
    /\ UNCHANGED <<tIn, tLang, tLines, tFor, tSt>>

(***************************************************************************)
(* The while loops of split_colons_outside_strings and of                  *)
(* split_midline_vb_statements, pass by pass                               *)
(***************************************************************************)
ScanIdle ==
  /\ scLoop = "none" /\ scLine = <<>> /\ scPc = "idle" /\ scOut = <<>>
  /\ scSt = [i |-> 0, cur |-> <<>>, in_string |-> FALSE, parts |-> <<>>]

ScanInit ==
  /\ scLoop \in {"colons", "midline"}
  /\ scLine \in ScanLines \cup SingleStatements
  /\ scPc = "scan" /\ scOut = <<>>
  /\ scSt = [i |-> 0, cur |-> <<>>, in_string |-> FALSE, parts |-> <<>>]

\* one pass of while i < len(line)
ScanPass ==
  /\ scPc = "scan"
  /\ scSt.i < Len(scLine)
  /\ scSt' = IF scLoop = "colons" THEN ColonPass(scSt, scLine)
             ELSE MidlinePass(scSt, scLine)
  /\ UNCHANGED <<scLoop, scLine, scPc, scOut>>

\* the loop is left: the last part is appended and parts returned
ScanReturn ==
  /\ scPc = "scan"
  /\ ~(scSt.i < Len(scLine))
  /\ scOut' = AppendPart(scSt.parts, scSt.cur)
  /\ scPc' = "done"
  /\ UNCHANGED <<scLoop, scLine, scSt>>

(***************************************************************************)
(* One call of pretty_print_code                                           *)
(***************************************************************************)
PrettyIdle ==
  ppCode = <<>> /\ ppLang = <<>> /\ ppPc = "idle" /\ ppOut = <<>>

PrettyInit ==
  ppCode \in PrettyCodes /\ ppLang \in PrettyLangs /\ ppPc = "call" /\ ppOut = <<>>

PrettyCall ==
  /\ ppPc = "call"
  /\ ppOut' = pretty_print_code(ppCode, ppLang)
  /\ ppPc' = "done"
  /\ UNCHANGED <<ppCode, ppLang>>

(***************************************************************************)
(* load_csv_to_sqlite                                                      *)
(***************************************************************************)
\* most rows of the CSV file and the largest chunk_size
MaxCsvRows == 3
MaxChunk == 3

\* what a row of the file holds
CsvValues == {"a", "b"}

\* the files: one row and more, every line of the file being a row
\* (header=None)
CsvFiles == StrUpTo(CsvValues, MaxCsvRows) \ {<<>>}

\* the target table before the call: empty or absent, or holding a row of
\* an earlier load
TablesBefore == {<<>>, <<"z">>}

LoadIdle ==
  /\ ldExists = FALSE /\ ldCsv = <<>> /\ ldChunk = 0 /\ ldReplace = FALSE
  /\ ldTable = <<>> /\ ldAt = 0 /\ ldPc = "idle"

LoadInit ==
  /\ ldExists \in BOOLEAN
  /\ ldCsv \in CsvFiles
  /\ ldChunk \in 1..MaxChunk
  /\ ldReplace \in BOOLEAN
  /\ ldTable \in TablesBefore
  /\ ldAt = 1 /\ ldPc = "sample"

\* DataFrame.to_sql(table_name, conn, if_exists=..., index=False): the rows
\* of the frame are inserted, after the table is dropped when if_exists is
\* "replace"
to_sql(table, frame, if_exists) ==
  IF if_exists = "replace" THEN frame ELSE table \o frame

\* the sample insert: the frame pd.read_csv gives with nrows=1 is written
\* with to_sql, if_exists being "replace" or "append" after replace
SampleToSql(table, csv, replace) ==
  to_sql(table, SubSeq(csv, 1, 1), IF replace THEN "replace" ELSE "append")

\* the rows of the chunk that starts at row at
ChunkAt(csv, at, size) ==
  SubSeq(csv, at, IF at + size - 1 < Len(csv) THEN at + size - 1 ELSE Len(csv))

\* if not csv_path.exists(): raise FileNotFoundError
LoadMissing ==
  /\ ldPc = "sample" /\ ~ldExists
  /\ ldPc' = "raised"
  /\ UNCHANGED <<ldExists, ldCsv, ldChunk, ldReplace, ldTable, ldAt>>

\* sample_df = pd.read_csv(..., nrows=1) and sample_df.to_sql(...)
LoadSample ==
  /\ ldPc = "sample" /\ ldExists
  /\ ldTable' = SampleToSql(ldTable, ldCsv, ldReplace)
  /\ ldPc' = "chunks"
  /\ UNCHANGED <<ldExists, ldCsv, ldChunk, ldReplace, ldAt>>

\* one pass of the loop over pd.read_csv(..., chunksize=chunk_size), which
\* reads the file from its first row
LoadChunk ==
  /\ ldPc = "chunks" /\ ldAt <= Len(ldCsv)
  /\ ldTable' = to_sql(ldTable, ChunkAt(ldCsv, ldAt, ldChunk), "append")
  /\ ldAt' = ldAt + ldChunk
  /\ UNCHANGED <<ldExists, ldCsv, ldChunk, ldReplace, ldPc>>

\* conn.commit(); conn.close()
LoadCommit ==
  /\ ldPc = "chunks" /\ ldAt > Len(ldCsv)
  /\ ldPc' = "closed"
  /\ UNCHANGED <<ldExists, ldCsv, ldChunk, ldReplace, ldTable, ldAt>>

(***************************************************************************)
(* Specifications                                                          *)
(***************************************************************************)
Init == DetailsInit /\ NormIdle /\ ExtractIdle /\ LangIdle /\ VbIdle /\ CsIdle /\ ColonIdle /\ FindIdle /\ BatchIdle /\ PrettyIdle /\ ScanIdle /\ LoadIdle /\ ParIdle
Next ==
  \/ DetailsParse /\ UNCHANGED <<NormVars, ExtractVars, LangVars, VbVars, CsVars, ColonVars, FindVars, BatchVars, PrettyVars, ScanVars, LoadVars, ParVars>>
  \/ DetailsStage /\ UNCHANGED <<NormVars, ExtractVars, LangVars, VbVars, CsVars, ColonVars, FindVars, BatchVars, PrettyVars, ScanVars, LoadVars, ParVars>>
  \/ DetailsDone /\ UNCHANGED <<NormVars, ExtractVars, LangVars, VbVars, CsVars, ColonVars, FindVars, BatchVars, PrettyVars, ScanVars, LoadVars, ParVars>>
Spec == Init /\ [][Next]_vars

InitVb == VbInit /\ NormIdle /\ ExtractIdle /\ LangIdle /\ CsIdle /\ ColonIdle /\ FindIdle /\ DetailsIdle /\ BatchIdle /\ PrettyIdle /\ ScanIdle /\ LoadIdle /\ ParIdle
NextVb ==
  \/ VbStart /\ UNCHANGED <<NormVars, ExtractVars, LangVars, CsVars, ColonVars, FindVars, DetailsVars, BatchVars, PrettyVars, ScanVars, LoadVars, ParVars>>
  \/ VbJoin /\ UNCHANGED <<NormVars, ExtractVars, LangVars, CsVars, ColonVars, FindVars, DetailsVars, BatchVars, PrettyVars, ScanVars, LoadVars, ParVars>>
  \/ VbColons /\ UNCHANGED <<NormVars, ExtractVars, LangVars, CsVars, ColonVars, FindVars, DetailsVars, BatchVars, PrettyVars, ScanVars, LoadVars, ParVars>>
  \/ VbMidline /\ UNCHANGED <<NormVars, ExtractVars, LangVars, CsVars, ColonVars, FindVars, DetailsVars, BatchVars, PrettyVars, ScanVars, LoadVars, ParVars>>
  \/ VbIfs /\ UNCHANGED <<NormVars, ExtractVars, LangVars, CsVars, ColonVars, FindVars, DetailsVars, BatchVars, PrettyVars, ScanVars, LoadVars, ParVars>>
  \/ VbIndentLine /\ UNCHANGED <<NormVars, ExtractVars, LangVars, CsVars, ColonVars, FindVars, DetailsVars, BatchVars, PrettyVars, ScanVars, LoadVars, ParVars>>
  \/ VbReturn /\ UNCHANGED <<NormVars, ExtractVars, LangVars, CsVars, ColonVars, FindVars, DetailsVars, BatchVars, PrettyVars, ScanVars, LoadVars, ParVars>>
SpecVb == InitVb /\ [][NextVb]_vars

InitNorm == NormInit /\ ExtractIdle /\ LangIdle /\ VbIdle /\ CsIdle /\ ColonIdle /\ FindIdle /\ DetailsIdle /\ BatchIdle /\ PrettyIdle /\ ScanIdle /\ LoadIdle /\ ParIdle
NextNorm ==
  \/ NormalizeCall /\ UNCHANGED <<ExtractVars, LangVars, VbVars, CsVars, ColonVars, FindVars, DetailsVars, BatchVars, PrettyVars, ScanVars, LoadVars, ParVars>>
SpecNorm == InitNorm /\ [][NextNorm]_vars

InitExtract == ExtractInit /\ NormIdle /\ LangIdle /\ VbIdle /\ CsIdle /\ ColonIdle /\ FindIdle /\ DetailsIdle /\ BatchIdle /\ PrettyIdle /\ ScanIdle /\ LoadIdle /\ ParIdle
NextExtract ==
  \/ ExtractCall /\ UNCHANGED <<NormVars, LangVars, VbVars, CsVars, ColonVars, FindVars, DetailsVars, BatchVars, PrettyVars, ScanVars, LoadVars, ParVars>>
SpecExtract == InitExtract /\ [][NextExtract]_vars

InitLang == LangInit /\ NormIdle /\ ExtractIdle /\ VbIdle /\ CsIdle /\ ColonIdle /\ FindIdle /\ DetailsIdle /\ BatchIdle /\ PrettyIdle /\ ScanIdle /\ LoadIdle /\ ParIdle
NextLang ==
  \/ InferCall /\ UNCHANGED <<NormVars, ExtractVars, VbVars, CsVars, ColonVars, FindVars, DetailsVars, BatchVars, PrettyVars, ScanVars, LoadVars, ParVars>>
SpecLang == InitLang /\ [][NextLang]_vars

InitCs == CsInit /\ NormIdle /\ ExtractIdle /\ LangIdle /\ VbIdle /\ ColonIdle /\ FindIdle /\ DetailsIdle /\ BatchIdle /\ PrettyIdle /\ ScanIdle /\ LoadIdle /\ ParIdle
NextCs ==
  \/ CsSplit /\ UNCHANGED <<NormVars, ExtractVars, LangVars, VbVars, ColonVars, FindVars, DetailsVars, BatchVars, PrettyVars, ScanVars, LoadVars, ParVars>>
  \/ CsIndentLine /\ UNCHANGED <<NormVars, ExtractVars, LangVars, VbVars, ColonVars, FindVars, DetailsVars, BatchVars, PrettyVars, ScanVars, LoadVars, ParVars>>
  \/ CsReturn /\ UNCHANGED <<NormVars, ExtractVars, LangVars, VbVars, ColonVars, FindVars, DetailsVars, BatchVars, PrettyVars, ScanVars, LoadVars, ParVars>>
SpecCs == InitCs /\ [][NextCs]_vars

InitFmt ==
  /\ \/ VbInit /\ CsIdle
     \/ CsInit /\ VbIdle
  /\ NormIdle /\ ExtractIdle /\ LangIdle /\ ColonIdle /\ FindIdle /\ DetailsIdle /\ BatchIdle /\ PrettyIdle /\ ScanIdle /\ LoadIdle /\ ParIdle
NextFmt ==
  \/ VbStart /\ UNCHANGED <<NormVars, ExtractVars, LangVars, CsVars, ColonVars, FindVars, DetailsVars, BatchVars, PrettyVars, ScanVars, LoadVars, ParVars>>
  \/ VbJoin /\ UNCHANGED <<NormVars, ExtractVars, LangVars, CsVars, ColonVars, FindVars, DetailsVars, BatchVars, PrettyVars, ScanVars, LoadVars, ParVars>>
  \/ VbColons /\ UNCHANGED <<NormVars, ExtractVars, LangVars, CsVars, ColonVars, FindVars, DetailsVars, BatchVars, PrettyVars, ScanVars, LoadVars, ParVars>>
  \/ VbMidline /\ UNCHANGED <<NormVars, ExtractVars, LangVars, CsVars, ColonVars, FindVars, DetailsVars, BatchVars, PrettyVars, ScanVars, LoadVars, ParVars>>
  \/ VbIfs /\ UNCHANGED <<NormVars, ExtractVars, LangVars, CsVars, ColonVars, FindVars, DetailsVars, BatchVars, PrettyVars, ScanVars, LoadVars, ParVars>>
  \/ VbIndentLine /\ UNCHANGED <<NormVars, ExtractVars, LangVars, CsVars, ColonVars, FindVars, DetailsVars, BatchVars, PrettyVars, ScanVars, LoadVars, ParVars>>
  \/ VbReturn /\ UNCHANGED <<NormVars, ExtractVars, LangVars, CsVars, ColonVars, FindVars, DetailsVars, BatchVars, PrettyVars, ScanVars, LoadVars, ParVars>>
  \/ CsSplit /\ UNCHANGED <<NormVars, ExtractVars, LangVars, VbVars, ColonVars, FindVars, DetailsVars, BatchVars, PrettyVars, ScanVars, LoadVars, ParVars>>
  \/ CsIndentLine /\ UNCHANGED <<NormVars, ExtractVars, LangVars, VbVars, ColonVars, FindVars, DetailsVars, BatchVars, PrettyVars, ScanVars, LoadVars, ParVars>>
  \/ CsReturn /\ UNCHANGED <<NormVars, ExtractVars, LangVars, VbVars, ColonVars, FindVars, DetailsVars, BatchVars, PrettyVars, ScanVars, LoadVars, ParVars>>
SpecFmt == InitFmt /\ [][NextFmt]_vars

InitColon == ColonInit /\ NormIdle /\ ExtractIdle /\ LangIdle /\ VbIdle /\ CsIdle /\ FindIdle /\ DetailsIdle /\ BatchIdle /\ PrettyIdle /\ ScanIdle /\ LoadIdle /\ ParIdle
NextColon ==
  \/ ColonCall /\ UNCHANGED <<NormVars, ExtractVars, LangVars, VbVars, CsVars, FindVars, DetailsVars, BatchVars, PrettyVars, ScanVars, LoadVars, ParVars>>
SpecColon == InitColon /\ [][NextColon]_vars

InitFind == FindInit /\ NormIdle /\ ExtractIdle /\ LangIdle /\ VbIdle /\ CsIdle /\ ColonIdle /\ DetailsIdle /\ BatchIdle /\ PrettyIdle /\ ScanIdle /\ LoadIdle /\ ParIdle
NextFind ==
  \/ FindCall /\ UNCHANGED <<NormVars, ExtractVars, LangVars, VbVars, CsVars, ColonVars, DetailsVars, BatchVars, PrettyVars, ScanVars, LoadVars, ParVars>>
SpecFind == InitFind /\ [][NextFind]_vars

InitBatch == BatchInit /\ NormIdle /\ ExtractIdle /\ LangIdle /\ VbIdle /\ CsIdle /\ ColonIdle /\ FindIdle /\ DetailsIdle /\ PrettyIdle /\ ScanIdle /\ LoadIdle /\ ParIdle
NextBatch ==
  \/ BatchSkip /\ UNCHANGED <<NormVars, ExtractVars, LangVars, VbVars, CsVars, ColonVars, FindVars, DetailsVars, PrettyVars, ScanVars, LoadVars, ParVars>>
  \/ BatchRow /\ UNCHANGED <<NormVars, ExtractVars, LangVars, VbVars, CsVars, ColonVars, FindVars, DetailsVars, PrettyVars, ScanVars, LoadVars, ParVars>>
  \/ BatchReturn /\ UNCHANGED <<NormVars, ExtractVars, LangVars, VbVars, CsVars, ColonVars, FindVars, DetailsVars, PrettyVars, ScanVars, LoadVars, ParVars>>
SpecBatch == InitBatch /\ [][NextBatch]_vars

InitPar == ParInit /\ NormIdle /\ ExtractIdle /\ LangIdle /\ VbIdle /\ CsIdle /\ ColonIdle /\ FindIdle /\ DetailsIdle /\ BatchIdle /\ PrettyIdle /\ ScanIdle /\ LoadIdle
NextPar ==
  \/ ParStart /\ UNCHANGED <<NormVars, ExtractVars, LangVars, VbVars, CsVars, ColonVars, FindVars, DetailsVars, BatchVars, PrettyVars, ScanVars, LoadVars>>
  \/ ParSemicolons /\ UNCHANGED <<NormVars, ExtractVars, LangVars, VbVars, CsVars, ColonVars, FindVars, DetailsVars, BatchVars, PrettyVars, ScanVars, LoadVars>>
  \/ ParSplit /\ UNCHANGED <<NormVars, ExtractVars, LangVars, VbVars, CsVars, ColonVars, FindVars, DetailsVars, BatchVars, PrettyVars, ScanVars, LoadVars>>
  \/ ParIndentLine /\ UNCHANGED <<NormVars, ExtractVars, LangVars, VbVars, CsVars, ColonVars, FindVars, DetailsVars, BatchVars, PrettyVars, ScanVars, LoadVars>>
  \/ ParReturn /\ UNCHANGED <<NormVars, ExtractVars, LangVars, VbVars, CsVars, ColonVars, FindVars, DetailsVars, BatchVars, PrettyVars, ScanVars, LoadVars>>
SpecPar == InitPar /\ [][NextPar]_vars

InitTotal ==
  /\ \/ VbInit /\ CsIdle /\ ScanIdle
     \/ CsInit /\ VbIdle /\ ScanIdle
     \/ ScanInit /\ VbIdle /\ CsIdle
  /\ NormIdle /\ ExtractIdle /\ LangIdle /\ ColonIdle /\ FindIdle /\ DetailsIdle /\ BatchIdle /\ PrettyIdle /\ LoadIdle /\ ParIdle
NextTotal ==
  \/ VbStart /\ UNCHANGED <<NormVars, ExtractVars, LangVars, CsVars, ColonVars, FindVars, DetailsVars, BatchVars, PrettyVars, ScanVars, LoadVars, ParVars>>
  \/ VbJoin /\ UNCHANGED <<NormVars, ExtractVars, LangVars, CsVars, ColonVars, FindVars, DetailsVars, BatchVars, PrettyVars, ScanVars, LoadVars, ParVars>>
  \/ VbColons /\ UNCHANGED <<NormVars, ExtractVars, LangVars, CsVars, ColonVars, FindVars, DetailsVars, BatchVars, PrettyVars, ScanVars, LoadVars, ParVars>>
  \/ VbMidline /\ UNCHANGED <<NormVars, ExtractVars, LangVars, CsVars, ColonVars, FindVars, DetailsVars, BatchVars, PrettyVars, ScanVars, LoadVars, ParVars>>
  \/ VbIfs /\ UNCHANGED <<NormVars, ExtractVars, LangVars, CsVars, ColonVars, FindVars, DetailsVars, BatchVars, PrettyVars, ScanVars, LoadVars, ParVars>>
  \/ VbIndentLine /\ UNCHANGED <<NormVars, ExtractVars, LangVars, CsVars, ColonVars, FindVars, DetailsVars, BatchVars, PrettyVars, ScanVars, LoadVars, ParVars>>
  \/ VbReturn /\ UNCHANGED <<NormVars, ExtractVars, LangVars, CsVars, ColonVars, FindVars, DetailsVars, BatchVars, PrettyVars, ScanVars, LoadVars, ParVars>>
  \/ CsSplit /\ UNCHANGED <<NormVars, ExtractVars, LangVars, VbVars, ColonVars, FindVars, DetailsVars, BatchVars, PrettyVars, ScanVars, LoadVars, ParVars>>
  \/ CsIndentLine /\ UNCHANGED <<NormVars, ExtractVars, LangVars, VbVars, ColonVars, FindVars, DetailsVars, BatchVars, PrettyVars, ScanVars, LoadVars, ParVars>>
  \/ CsReturn /\ UNCHANGED <<NormVars, ExtractVars, LangVars, VbVars, ColonVars, FindVars, DetailsVars, BatchVars, PrettyVars, ScanVars, LoadVars, ParVars>>
  \/ ScanPass /\ UNCHANGED <<NormVars, ExtractVars, LangVars, VbVars, CsVars, ColonVars, FindVars, DetailsVars, BatchVars, PrettyVars, LoadVars, ParVars>>
  \/ ScanReturn /\ UNCHANGED <<NormVars, ExtractVars, LangVars, VbVars, CsVars, ColonVars, FindVars, DetailsVars, BatchVars, PrettyVars, LoadVars, ParVars>>
SpecTotal == InitTotal /\ [][NextTotal]_vars

InitPretty == PrettyInit /\ NormIdle /\ ExtractIdle /\ LangIdle /\ VbIdle /\ CsIdle /\ ColonIdle /\ FindIdle /\ DetailsIdle /\ BatchIdle /\ ScanIdle /\ LoadIdle /\ ParIdle
NextPretty ==
  \/ PrettyCall /\ UNCHANGED <<NormVars, ExtractVars, LangVars, VbVars, CsVars, ColonVars, FindVars, DetailsVars, BatchVars, ScanVars, LoadVars, ParVars>>
SpecPretty == InitPretty /\ [][NextPretty]_vars

InitScan == ScanInit /\ NormIdle /\ ExtractIdle /\ LangIdle /\ VbIdle /\ CsIdle /\ ColonIdle /\ FindIdle /\ DetailsIdle /\ BatchIdle /\ PrettyIdle /\ LoadIdle /\ ParIdle
NextScan ==
  \/ ScanPass /\ UNCHANGED <<NormVars, ExtractVars, LangVars, VbVars, CsVars, ColonVars, FindVars, DetailsVars, BatchVars, PrettyVars, LoadVars, ParVars>>
  \/ ScanReturn /\ UNCHANGED <<NormVars, ExtractVars, LangVars, VbVars, CsVars, ColonVars, FindVars, DetailsVars, BatchVars, PrettyVars, LoadVars, ParVars>>
SpecScan == InitScan /\ [][NextScan]_vars

InitLoad == LoadInit /\ NormIdle /\ ExtractIdle /\ LangIdle /\ VbIdle /\ CsIdle /\ ColonIdle /\ FindIdle /\ DetailsIdle /\ BatchIdle /\ PrettyIdle /\ ScanIdle /\ ParIdle
NextLoad ==
  \/ LoadMissing /\ UNCHANGED <<NormVars, ExtractVars, LangVars, VbVars, CsVars, ColonVars, FindVars, DetailsVars, BatchVars, PrettyVars, ScanVars, ParVars>>
  \/ LoadSample /\ UNCHANGED <<NormVars, ExtractVars, LangVars, VbVars, CsVars, ColonVars, FindVars, DetailsVars, BatchVars, PrettyVars, ScanVars, ParVars>>
  \/ LoadChunk /\ UNCHANGED <<NormVars, ExtractVars, LangVars, VbVars, CsVars, ColonVars, FindVars, DetailsVars, BatchVars, PrettyVars, ScanVars, ParVars>>
  \/ LoadCommit /\ UNCHANGED <<NormVars, ExtractVars, LangVars, VbVars, CsVars, ColonVars, FindVars, DetailsVars, BatchVars, PrettyVars, ScanVars, ParVars>>
SpecLoad == InitLoad /\ [][NextLoad]_vars

(***************************************************************************)
(* Claims                                                                  *)
(***************************************************************************)
\* C1: normalize_code is idempotent and total: a second application returns
\* what the first returned, every result is a string, and None or the empty
\* string yields the empty string.
C1_NormalizeIdempotent ==
  /\ \A k \in 1..Len(nHist) : nHist[k] \in Seq(NormAlphabet)
  /\ \A k \in 2..Len(nHist) : nHist[k] = nHist[1]
  /\ (nIn \in {None, <<>>} /\ Len(nHist) >= 1) => nHist[1] = <<>>

\* a mixed CR / LF / CRLF input with trailing blanks has been normalized twice
C1_Witness ==
  /\ Len(nHist) >= 2
  /\ nIn = <<"a", " ", "\r", "\r", "\n">>
  /\ nHist[1] = <<"a">>

\* what the extractor tests before it parses: the trimmed blob starts with
\* '<' and holds a stage marker
LooksLikeStageXml(code_text) ==
  /\ code_text # None
  /\ StartsWith(Strip(code_text), <<"<">>)
  /\ \/ Contains(Strip(code_text), StageOpen)
     \/ Contains(Strip(code_text), StageClose)

XKinds == {"code", "xml_pretty", "raw"}
XChars == UNION {{ps[i] : i \in 1..Len(ps)} : ps \in XPieces}

\* C2: the extractor never raises: every call returns a pair (clean_code,
\* source_kind) with source_kind one of code, xml_pretty, raw, and a blob
\* that looks like stage XML but does not parse yields the raw fallback
\* (normalize_code(blob), raw).
C2_ExtractNeverRaises ==
  xPc = "done" =>
    /\ xRes.ok
    /\ xRes.kind \in XKinds
    /\ xRes.code \in Seq(XChars \cup {"/", "&", ";", "g"})
    /\ (LooksLikeStageXml(xIn) /\ ~ET_fromstring(Strip(xIn)).ok)
         => xRes = Ret(normalize_code(xIn), "raw")

\* a blob with a stage marker and an element left open has been extracted
C2_Witness ==
  /\ xPc = "done"
  /\ xIn = <<"<","s","t","a","g","e",">","<","n","o","t"," ","x","m","l">>
  /\ ~ET_fromstring(Strip(xIn)).ok
  /\ xRes.kind = "raw"

\* the descendants named tag that carry non-blank text
WithText(ev, tag) ==
  {p \in 2..Len(ev) : ev[p].k = "start" /\ ev[p].v = tag
                      /\ ~Blank(TextAfter(ev, p))}

\* the candidate tag names, by rank, that some descendant with text bears
RanksWithText(ev) ==
  {j \in 1..Len(code_candidates) : WithText(ev, code_candidates[j]) # {}}

\* C3: the decision table of the extractor: empty input gives ("", raw); a
\* blob that does not look like stage XML or does not parse gives
\* (normalize(blob), raw); a blob that parses and has an inner candidate
\* node with text gives (that node's text, code); a blob that parses and has
\* no candidate node with text gives (pretty-printed XML, xml_pretty).
C3_DecisionTable ==
  xPc = "done" =>
    IF xIn = None \/ xIn = <<>> THEN xRes = Ret(<<>>, "raw")
    ELSE IF ~LooksLikeStageXml(xIn) \/ ~ET_fromstring(Strip(xIn)).ok
    THEN xRes = Ret(normalize_code(xIn), "raw")
    ELSE LET ev == ET_fromstring(Strip(xIn)).ev
         IN  IF RanksWithText(ev) # {}
             THEN /\ xRes.kind = "code"
                  /\ \E j \in RanksWithText(ev) :
                       \E p \in WithText(ev, code_candidates[j]) :
                         xRes.code = normalize_code(TextAfter(ev, p))
             ELSE xRes = Ret(pretty_print_xml(Strip(xIn)), "xml_pretty")

\* C4: when the blob parses and some descendant with a candidate tag name
\* carries non-blank text, the result is tagged code and its text is that of
\* an element of the highest-priority candidate name that has such an
\* element.
C4_FirstCandidateWithText ==
  (xPc = "done" /\ LooksLikeStageXml(xIn) /\ ET_fromstring(Strip(xIn)).ok) =>
    LET ev == ET_fromstring(Strip(xIn)).ev
    IN  RanksWithText(ev) # {} =>
          /\ xRes.kind = "code"
          /\ \E p \in WithText(ev, code_candidates[SetMin(RanksWithText(ev))]) :
               xRes.code = normalize_code(TextAfter(ev, p))

\* C5 (extractor): the clean code the extractor returns is a fixed point of
\* normalize_code, whatever its source_kind.
C5_ExtractedCodeNormalized ==
  xPc = "done" => normalize_code(xRes.code) = xRes.code

\* the hint as the synonym tables read it: trimmed and lower-cased
HintKey(hint) == Lower(Strip(OrEmpty(hint)))

\* C7: a hint that is a synonym of the VB family, in any letter case,
\* resolves to "VB" whatever the code, and a synonym of the C# family
\* resolves to "C#".
C7_SynonymsCanonical ==
  lPc = "done" =>
    /\ HintKey(lHint) \in VbSynonyms => lRes = VB
    /\ HintKey(lHint) \in CsSynonyms => lRes = CSharp

\* C8: the language the classifier returns is one of VB, C#, Unknown, for
\* every hint and every code.
C8_LanguageClosed ==
  lPc = "done" => lRes \in {VB, CSharp, Unknown}

\* the hint is absent, blank or Unknown in any case
HintAbsent(hint) == HintKey(hint) = <<>> \/ HintKey(hint) = Lower(Unknown)

\* the line, without its indentation, starts with the word kw
LineStartsWithWord(line, kw) ==
  LET l == LStrip(line)
  IN  StartsWith(l, kw) /\ (Len(l) = Len(kw) \/ ~IsWord(l[Len(kw) + 1]))

\* the line reads If ... Then: it starts with 'if' and white space and
\* holds the word 'then' further on
LineIsIfThen(line) ==
  LET l == LStrip(line)
  IN  /\ StartsWith(l, <<"i","f">>)
      /\ Len(l) > 2
      /\ IsSpace(l[3])
      /\ \E b \in 3..(Len(l) - 4) :
           /\ SubSeq(l, b + 1, b + 4) = <<"t","h","e","n">>
           /\ ~IsWord(l[b])
           /\ (b + 4 = Len(l) \/ ~IsWord(l[b + 5]))

\* the line starts with 'using <identifier>'
LineIsUsing(line) ==
  LET l == LStrip(line)
  IN  /\ StartsWith(l, <<"u","s","i","n","g">>)
      /\ \E a \in 6..(Len(l) - 1) :
           /\ \A k \in 6..a : IsSpace(l[k])
           /\ IsWord(l[a + 1])

LinesOf(code) == Split(Lower(OrEmpty(code)), "\n")

HasVbSignal(code) ==
  LET lines == LinesOf(code)
  IN  \E n \in 1..Len(lines) :
        \/ \E kw \in VbBlockWords : LineStartsWithWord(lines[n], kw)
        \/ LineIsIfThen(lines[n])

HasCsSignal(code) ==
  LET lines == LinesOf(code)
  IN  \/ \E n \in 1..Len(lines) :
           \/ LineIsUsing(lines[n])
           \/ \E kw \in CsModifierWords : LineStartsWithWord(lines[n], kw)
      \/ /\ Contains(OrEmpty(code), <<"{">>)
         /\ Contains(OrEmpty(code), <<"}">>)
         /\ Contains(OrEmpty(code), <<";">>)

\* C9: without a usable hint the language is inferred from the content, the
\* VB signals first: a line starting with one of the VB words or a line
\* 'If ... Then' gives VB even beside C# signals; otherwise a line starting
\* with 'using <id>' or an access modifier, or '{', '}' and ';' all present,
\* gives C#; otherwise Unknown.
C9_InferFromContent ==
  (lPc = "done" /\ HintAbsent(lHint)) =>
    lRes = IF HasVbSignal(lCode) THEN VB
           ELSE IF HasCsSignal(lCode) THEN CSharp
           ELSE Unknown

\* the line holds the word w
LineHasWord(line, w) ==
  \E b \in 0..(Len(line) - Len(w)) :
    /\ StartsWithAt(line, w, b)
    /\ (b = 0 \/ ~IsWord(line[b]))
    /\ (b + Len(w) = Len(line) \/ ~IsWord(line[b + Len(w) + 1]))

\* line n is the bare word w, and the first line below it that is not
\* blank is line m
BareWordThenLine(lines, w, n, m) ==
  /\ StartsWith(LStrip(lines[n]), w)
  /\ Strip(From(LStrip(lines[n]), Len(w))) = <<>>
  /\ m > n
  /\ \A k \in (n + 1)..(m - 1) : Strip(lines[k]) = <<>>

\* a VB signal, the white space after 'If' running over line breaks
HasVbSignalAcrossLines(code) ==
  LET lines == LinesOf(code)
  IN  \/ HasVbSignal(code)
      \/ \E n, m \in 1..Len(lines) :
           /\ BareWordThenLine(lines, <<"i","f">>, n, m)
           /\ LineHasWord(lines[m], <<"t","h","e","n">>)

\* a C# signal, the white space after 'using' running over line breaks
HasCsSignalAcrossLines(code) ==
  LET lines == LinesOf(code)
  IN  \/ HasCsSignal(code)
      \/ \E n, m \in 1..Len(lines) :
           /\ BareWordThenLine(lines, <<"u","s","i","n","g">>, n, m)
           /\ LStrip(lines[m]) # <<>>
           /\ IsWord(LStrip(lines[m])[1])

\* C9 (amended): as C9, with the white space that follows 'If' and 'using'
\* allowed to run over line breaks: a bare 'If' line followed, after blank
\* lines, by a line that holds the word 'Then' is a VB signal, and a bare
\* 'using' line followed, after blank lines, by a line that starts with an
\* identifier is a C# signal.
C9_InferAcrossLines ==
  (lPc = "done" /\ HintAbsent(lHint)) =>
    lRes = IF HasVbSignalAcrossLines(lCode) THEN VB
           ELSE IF HasCsSignalAcrossLines(lCode) THEN CSharp
           ELSE Unknown

\* a code text with a VB signal and a C# signal has been classified VB
C9_Witness ==
  /\ lPc = "done"
  /\ HintAbsent(lHint)
  /\ HasVbSignal(lCode)
  /\ HasCsSignal(lCode)
  /\ lRes = VB

\* C6: the digest of a row is sha256_text of the clean code the extractor
\* returned for its stage, so two rows with the same clean code carry the
\* same digest, whatever language and displayed text they carry.
C6_DigestOfCleanCode ==
  /\ \A i \in 1..Len(dRows) : dRows[i].sha256 = sha256_text(dRows[i].code_norm)
  /\ \A i, j \in 1..Len(dRows) :
       dRows[i].code_norm = dRows[j].code_norm
         => dRows[i].sha256 = dRows[j].sha256

\* two stages of one object with the same clean code, resolved to different
\* languages and displayed differently
C6_Witness ==
  \E i, j \in 1..Len(dRows) :
    /\ dRows[i].code_norm = dRows[j].code_norm
    /\ dRows[i].code_norm # <<>>
    /\ dRows[i].language # dRows[j].language
    /\ dRows[i].code_text # dRows[j].code_text
    /\ dRows[i].sha256 = dRows[j].sha256

\* C10: a line If x > 0 Then <stmt1> Else <stmt2> comes out of the VB
\* formatter as the five lines If x > 0 Then, indented stmt1, Else, indented
\* stmt2, End If.
C10_IfElseFiveLines ==
  \A s1, s2 \in VbStatements :
    (vbPc = "done" /\ vbIn = IfThenElseOnOneLine(s1, s2))
      => vbOut = Join(<< <<"I","f"," ","x"," ",">"," ","0"," ","T","h","e","n">>,
                         <<" "," "," ">> \o s1,
                         <<"E","l","s","e">>,
                         <<" "," "," ">> \o s2,
                         <<"E","n","d"," ","I","f">> >>, <<"\n">>)

\* the number of blanks a line starts with
LeadingBlanks(line) == Len(line) - Len(LStrip(line))

\* C11: the C# formatter turns if(x){<s1>}else{<s2>} into two sibling
\* blocks: the if line and the else line at the same indentation, s1 and s2
\* each one level (four blanks) deeper, every closing brace back at the
\* level of if and else.
C11_IfElseSiblingBlocks ==
  \A s1, s2 \in CsStatements :
    (csPc = "done" /\ csIn = IfElseOnOneLine(s1, s2))
      => LET L == Split(csOut, "\n")
         IN  /\ Len(L) = 7
             /\ Strip(L[1]) = <<"i","f","(","x",")","{">> /\ Strip(L[4]) = <<"e","l","s","e">>
             /\ Strip(L[2]) = s1 /\ Strip(L[6]) = s2
             /\ Strip(L[3]) = <<"}">> /\ Strip(L[5]) = <<"{">> /\ Strip(L[7]) = <<"}">>
             /\ LeadingBlanks(L[4]) = LeadingBlanks(L[1])
             /\ LeadingBlanks(L[2]) = LeadingBlanks(L[1]) + 4
             /\ LeadingBlanks(L[6]) = LeadingBlanks(L[4]) + 4
             /\ LeadingBlanks(L[3]) = LeadingBlanks(L[1])
             /\ LeadingBlanks(L[7]) = LeadingBlanks(L[4])

\* if(x){a();}else{b();} has been formatted
C11_Witness ==
  /\ csPc = "done"
  /\ csIn = <<"i","f","(","x",")","{","a","(",")",";","}","e","l","s","e","{","b","(",")",";","}">>
  /\ csOut = Join(<< <<"i","f","(","x",")","{">>, <<" "," "," "," ","a","(",")",";">>, <<"}">>, <<"e","l","s","e">>, <<"{">>,
                     <<" "," "," "," ","b","(",")",";">>, <<"}">> >>, <<"\n">>)

\* C12: the indent counter of the C# formatter and of the VB formatter is
\* never negative after a line, so that no emitted line has a negative
\* prefix, whatever closers the input holds; }}}code(); comes out with every
\* line at indent 0.
C12_IndentNeverNegative ==
  /\ csSt.indent >= 0
  /\ vbSt.indent >= 0
  /\ (csPc = "done" /\ csIn = ClosersThenCode)
       => \A i \in 1..Len(Split(csOut, "\n")) :
            LeadingBlanks(Split(csOut, "\n")[i]) = 0

\* }}}code(); has been formatted: three closing braces and the statement,
\* none of them indented
C12_Witness ==
  /\ csPc = "done"
  /\ csIn = ClosersThenCode
  /\ csSt.indent = 0
  /\ csOut = Join(<< <<"}">>, <<>>, <<"}">>, <<>>, <<"}">>, <<"c","o","d","e","(",")",";">> >>, <<"\n">>)

\* some line of text holds sub whole
OnOneLine(text, sub) ==
  \E i \in 1..Len(Split(text, "\n")) : Contains(Split(text, "\n")[i], sub)

\* C13: the semicolons of a for header are not split: a code text that
\* holds for(int i=0;i<n;i++) comes out of the C# formatter with that
\* header on one line.
C13_ForHeaderOnOneLine ==
  (csPc = "done" /\ Contains(csIn, ForHeader)) => OnOneLine(csOut, ForHeader)

\* the string literals of the code texts handed to the C# formatter
CsLiterals == { <<"\"","a",";","{","b","}","\"">>, <<"\"","a",";","b","\"">> }

\* C14: a semicolon or a brace inside a double-quoted string literal never
\* introduces a line break: every string literal of the input is found
\* whole on one line of what the C# formatter returns.
C14_LiteralsOnOneLine ==
  \A lit \in CsLiterals :
    (csPc = "done" /\ Contains(csIn, lit)) => OnOneLine(csOut, lit)

\* the indices of the colons of line outside its string literals: a quote
\* opens or closes a literal, a doubled quote inside a literal does neither,
\* so an even number of quotes comes before such a colon
Separators(line) ==
  {i \in 1..Len(line) :
     /\ line[i] = ":"
     /\ Cardinality({j \in 1..(i - 1) : line[j] = "\""}) % 2 = 0}

\* the segments of line between the separators, from offset a
RECURSIVE SegmentsFrom(_, _)
SegmentsFrom(line, a) ==
  LET later == {i \in Separators(line) : i > a}
  IN  IF later = {} THEN <<From(line, a)>>
      ELSE <<SubSeq(line, a + 1, SetMin(later) - 1)>>
             \o SegmentsFrom(line, SetMin(later))

\* the trimmed segments that are not empty
RECURSIVE TrimmedSegments(_)
TrimmedSegments(segments) ==
  IF segments = <<>> THEN <<>>
  ELSE (IF Strip(segments[1]) = <<>> THEN <<>> ELSE <<Strip(segments[1])>>)
       \o TrimmedSegments(Tail(segments))

\* C15 as stated: the colon split ends a statement at every colon outside a
\* string literal and at no other, discards the empty segments, and the
\* statements put together are the characters of the line other than those
\* colons.
C15_ColonSplitKeepsCharacters ==
  (clPc = "done" /\ Strip(clIn) # <<>>)
    => /\ clOut = TrimmedSegments(SegmentsFrom(Strip(clIn), 0))
       /\ Flatten(clOut) = Flatten(SegmentsFrom(Strip(clIn), 0))

\* C15 amended: the colon split ends a statement at every colon outside a
\* string literal and at no other; each statement is its segment trimmed,
\* the empty ones discarded, so that the characters lost are those colons
\* and the white space at the ends of the segments.
C15_ColonSplitTrimmed ==
  (clPc = "done" /\ Strip(clIn) # <<>>)
    => /\ clOut = TrimmedSegments(SegmentsFrom(Strip(clIn), 0))
       /\ \A i \in 1..Len(clOut) : clOut[i] # <<>>
       /\ Replace(Flatten(clOut), <<" ">>, <<>>)
            = Replace(Flatten(SegmentsFrom(Strip(clIn), 0)), <<" ">>, <<>>)

\* """:":a has been split: the first colon follows a doubled quote inside a
\* string literal and is kept, the second is outside and ends the statement
C15_Witness ==
  /\ clPc = "done"
  /\ clIn = <<"\"","\"","\"",":","\"",":","a">>
  /\ clOut = << <<"\"","\"","\"",":","\"">>, <<"a">> >>

\* sub occurs in text
OccursIn(text, sub) ==
  \E i \in 1..Len(text) :
    i + Len(sub) - 1 <= Len(text) /\ SubSeq(text, i, i + Len(sub) - 1) = sub

\* word, any white space and an equals sign occur in text
OccursBeforeEquals(text, word) ==
  \E i, j \in 1..Len(text) :
    /\ i + Len(word) <= j
    /\ SubSeq(text, i, i + Len(word) - 1) = word
    /\ \A k \in (i + Len(word))..(j - 1) : IsSpace(text[k])
    /\ text[j] = "="

\* a credential pattern occurs in text
CredentialIn(text) ==
  \/ OccursBeforeEquals(text, <<"p","a","s","s","w","o","r","d">>)
  \/ OccursBeforeEquals(text, <<"p","w","d">>)
  \/ OccursBeforeEquals(text, <<"t","o","k","e","n">>)
  \/ OccursIn(text, <<"a","p","i","k","e","y">>)
  \/ OccursIn(text, <<"a","p","i","_","k","e","y">>)
  \/ \E ws \in {" ", "\t", "\n", "\r"} :
       OccursIn(text, Append(<<"b","e","a","r","e","r">>, ws))

\* the lower-cased code of the call
FindLowered == Lower(IF fIn = None THEN <<>> ELSE fIn)

\* C16: simple_code_findings returns the eight flags and urls and nothing
\* else; every flag is a boolean, true exactly when a substring or pattern
\* of its list occurs in the lower-cased code; code that holds
\* password = "abc123" has has_hardcoded_credential_like set.
C16_FlagsFollowLists ==
  fPc = "done"
    => /\ DOMAIN fRes = DOMAIN FlagSubstrings
                          \cup {"has_hardcoded_credential_like", "urls"}
       /\ Cardinality(DOMAIN fRes \ {"urls"}) = 8
       /\ \A f \in DOMAIN FlagSubstrings :
            /\ fRes[f] \in BOOLEAN
            /\ fRes[f] <=> \E sub \in FlagSubstrings[f] :
                             OccursIn(FindLowered, sub)
       /\ fRes.has_hardcoded_credential_like \in BOOLEAN
       /\ fRes.has_hardcoded_credential_like <=> CredentialIn(FindLowered)
       /\ OccursIn(FindLowered, PasswordExample)
            => fRes.has_hardcoded_credential_like

\* password = "abc123" has been scanned: the credential flag is set and no
\* other flag is
C16_Witness ==
  /\ fPc = "done"
  /\ fIn = PasswordExample
  /\ fRes.has_hardcoded_credential_like
  /\ \A f \in DOMAIN FlagSubstrings : ~fRes[f]

\* urls holds no URL twice, is sorted in ascending order, at most limit
\* long, and holds the smallest of matches, all of them when they are at
\* most limit
SmallestSorted(urls, matches, limit) ==
  /\ Len(urls) <= limit
  /\ \A i \in 1..(Len(urls) - 1) : StrLess(urls[i], urls[i + 1])
  /\ \A i, j \in 1..Len(urls) : i # j => urls[i] # urls[j]
  /\ \A i \in 1..Len(urls) : urls[i] \in matches
  /\ Len(urls) = IF Cardinality(matches) < limit
                 THEN Cardinality(matches) ELSE limit
  /\ \A u \in matches :
       \/ \E i \in 1..Len(urls) : urls[i] = u
       \/ \A i \in 1..Len(urls) : StrLess(urls[i], u)

\* the elements of a list
ElementsOf(xs) == {xs[n] : n \in 1..Len(xs)}

\* the distinct URL matches of the code of the call
FindMatches == ElementsOf(FindAllUrls(IF fIn = None THEN <<>> ELSE fIn, 0))

\* C17: urls holds no URL twice, is sorted in ascending order and at most
\* 50 long, and holds the smallest distinct URL matches of the code, all of
\* them when there are at most 50.
C17_UrlsSortedDistinctCapped ==
  fPc = "done" => SmallestSorted(fRes.urls, FindMatches, 50)

\* 52 distinct URLs, one of them twice, have been scanned: urls holds the 50
\* smallest, from http://00 to http://49
C17_Witness ==
  /\ fPc = "done"
  /\ fIn = ManyUrls
  /\ Cardinality(FindMatches) = 52
  /\ fRes.urls = [n \in 1..50 |-> UrlNo(n - 1)]

\* C18 as stated: the line_count of every row is the number of line breaks
\* of the text stored in the row plus one.
C18_LineCountIsBreaksPlusOne ==
  \A i \in 1..Len(dRows) :
    dRows[i].line_count = Count(dRows[i].code_text, "\n") + 1

\* C18 amended: the line_count of every row is 0 when the text stored in
\* the row is empty, else the number of line breaks of that text, as it is
\* stored, plus one.
C18_LineCountOfStoredText ==
  \A i \in 1..Len(dRows) :
    dRows[i].line_count =
      IF dRows[i].code_text = <<>> THEN 0
      ELSE Cardinality({k \in 1..Len(dRows[i].code_text) :
                          dRows[i].code_text[k] = "\n"}) + 1

\* a row whose stored text has more lines than the clean code it was
\* formatted from, and a row whose stored text is empty
C18_Witness ==
  /\ \E i \in 1..Len(dRows) :
       /\ dRows[i].line_count > 1
       /\ dRows[i].line_count = Count(dRows[i].code_text, "\n") + 1
       /\ Count(dRows[i].code_norm, "\n") = 0
  /\ \E i \in 1..Len(dRows) :
       /\ dRows[i].code_text = <<>>
       /\ dRows[i].code_norm # <<>>
       /\ dRows[i].line_count = 0

C20_CallsDoNotInterfere ==
  /\ \A c \in Calls :
       /\ tPc[c] = "done" => tOut[c] = pretty_print_code(tIn[c], tLang[c])
       /\ tPc[c] = "start" => tFor[c] = [in_for |-> FALSE, out |-> <<>>]
       /\ tPc[c] \in {"start", "semicolons"} => tSt[c] = [indent |-> 0, out |-> <<>>]
  /\ \A c, d \in Calls :
       /\ tIn[c] = tIn[d] /\ tLang[c] = tLang[d]
       /\ tPc[c] = tPc[d] /\ tLines[c] = tLines[d]
       => tFor[c] = tFor[d] /\ tSt[c] = tSt[d] /\ tOut[c] = tOut[d]

\* one call is inside a for header it has not seen the end of while another,
\* given another blob, is inside a block it has indented
C20_Witness ==
  \E c, d \in Calls :
    /\ c # d /\ tIn[c] # tIn[d]
    /\ tPc[c] = "semicolons" /\ tFor[c].in_for /\ tFor[c].out # <<>>
    /\ tPc[d] = "indent" /\ tSt[d].indent > 0 /\ tSt[d].out # <<>>

\* the steps of the two formatters from the last to the first
StepRank ==
  [idle |-> 0, done |-> 0, indent |-> 1, ifs |-> 2, split |-> 2,
   midline |-> 3, colons |-> 4, join |-> 5, start |-> 6]

\* a step is left for a later one, or the loop over the lines has one line
\* fewer to visit
Advances(pc, lines, pc_, lines_) ==
  \/ StepRank[pc_] < StepRank[pc]
  \/ StepRank[pc_] = StepRank[pc] /\ Len(lines_) < Len(lines)

\* C21: pretty_print_vb_blocks and pretty_print_csharp_braces are total, on
\* code with quotes that are not closed, braces that do not match and
\* continuation markers that nothing follows too: every step of a formatter
\* leaves fewer steps or fewer lines to do, every pass of the while loops of
\* the colon split and of the mid-line split moves the index i forward and
\* not past the end of the line, and what is returned at the end is the string
\* (the list of parts) the function gives for the argument.
C21_FormattersTotal ==
  [][/\ vbPc' # vbPc \/ vbLines' # vbLines \/ vbSt' # vbSt \/ vbOut' # vbOut
        => Advances(vbPc, vbLines, vbPc', vbLines')
     /\ csPc' # csPc \/ csLines' # csLines \/ csSt' # csSt \/ csOut' # csOut
        => Advances(csPc, csLines, csPc', csLines')
     /\ scSt' # scSt => scSt.i < scSt'.i /\ scSt'.i <= Len(scLine)
     /\ vbPc' = "done" => vbOut' = pretty_print_vb_blocks(vbIn)
     /\ csPc' = "done" => csOut' = pretty_print_csharp_braces(csIn)
     /\ scPc' = "done" =>
          scOut' = IF scLoop = "colons" THEN split_colons_outside_strings(scLine)
                   ELSE split_midline_vb_statements(scLine)]_vars

\* the VB formatter has returned for code whose last quote is not closed or
\* whose last line ends with a continuation marker
C21_Witness ==
  /\ vbPc = "done" /\ vbIn \in MalformedVb /\ vbOut # <<>>
  /\ Count(vbIn, "\"") % 2 = 1 \/ EndsWith(vbIn, <<" ", "_">>)

\* C22: a line If x > 0 Then <stmt>, whatever the statement starts with,
\* comes out of the VB formatter as the three lines If x > 0 Then, indented
\* stmt, End If.
C22_SingleLineIfGetsEndIf ==
  \A stmt \in VbThenStatements :
    (vbPc = "done" /\ vbIn = IfThenOnOneLine(stmt))
      => vbOut = Join(<< <<"I","f"," ","x"," ",">"," ","0"," ","T","h","e","n">>,
                         <<" "," "," ">> \o stmt,
                         <<"E","n","d"," ","I","f">> >>, <<"\n">>)

\* the line ends with white space followed by '_'
EndsWithMarker(line) ==
  Len(line) > 1 /\ line[Len(line)] = "_" /\ IsSpace(line[Len(line) - 1])

\* the line without its marker and the white space before it, and one blank
Unmarked(line) == RStrip(SubSeq(line, 1, Len(line) - 1)) \o <<" ">>

\* the lines joined line by line: cur is what the lines joined so far give,
\* empty when the next line starts a line of its own
RECURSIVE JoinedByMarker(_, _)
JoinedByMarker(lines, cur) ==
  LET Line(line) ==
        IF EndsWithMarker(line)
        THEN JoinedByMarker(Tail(lines), cur \o Unmarked(line))
        ELSE << cur \o line >> \o JoinedByMarker(Tail(lines), <<>>)
  IN  IF lines = <<>> THEN IF cur = <<>> THEN <<>> ELSE << cur >>
      ELSE Line(IF cur = <<>> THEN RStrip(lines[1])
                ELSE LStrip(RStrip(lines[1])))

\* no line that follows a line with a marker is blank or a lone '_'
PlainlyContinued(lines) ==
  \A n \in 2..Len(lines) :
    EndsWithMarker(RStrip(lines[n - 1]))
      => LStrip(RStrip(lines[n])) \notin {<<>>, <<"_">>}

\* what step 1 was given and what it left
JoinStepHolds(given, left) ==
  /\ \A n \in 1..Len(left) : ~EndsWithMarker(left[n])
  /\ PlainlyContinued(given) => left = JoinedByMarker(given, <<>>)

OneLineIf(low) ==
  /\ StartsWith(low, <<"i","f"," ">>)
  /\ Contains(low, <<" ","t","h","e","n"," ">>)
  /\ ~EndsWith(low, <<"t","h","e","n">>)

\* what one pass of the indenting loop did with the line raw: the counter
\* was indent and is indent_, emitted is the last line put out; an opener
\* for which kept holds leaves the counter as it is
KeywordStep(indent, raw, indent_, emitted, kept(_)) ==
  LET Lowered(line, low) ==
        IF line = <<>> THEN emitted = <<>> /\ indent_ = indent
        ELSE IF StartsWithAny(low, enders)
        THEN /\ emitted = Spaces4(Max0(indent - 1)) \o line
             /\ indent_ = Max0(indent - 1)
        ELSE IF StartsWithAny(low, miders)
        THEN /\ emitted = Spaces4(indent_ - 1) \o line
             /\ indent_ = IF indent > 0 THEN indent ELSE 1
        ELSE IF StartsWithAny(low, starters)
        THEN /\ emitted = Spaces4(indent) \o line
             /\ indent_ = IF kept(low) THEN indent ELSE indent + 1
        ELSE /\ emitted = Spaces4(indent) \o line
             /\ indent_ = indent
  IN  Lowered(Strip(raw), Lower(Strip(raw)))

\* the block of WellFormedIfElse as it is to come out
WellFormedIfElseIndented ==
  Join(<< <<"I","f"," ","x"," ",">"," ","0"," ","T","h","e","n">>,
          <<" "," "," "," ","y"," ","="," ","1">>,
          <<"E","l","s","e">>,
          <<" "," "," "," ","y"," ","="," ","2">>,
          <<"E","n","d"," ","I","f">>,
          <<"z"," ","="," ","3">> >>, <<"\n">>)

\* C24 as the claim has it: in every pass of the indenting loop of
\* pretty_print_vb_blocks a line that starts with a terminator is put out
\* after the counter went down by one (not below 0), a line that starts with
\* a mid-block keyword is put out one level above the body that follows and
\* the counter is what it was, a line that starts with an opener is put out
\* at the counter and the counter goes up by one, every other line is put
\* out at the counter and leaves it; the If, Else and End If of a well-formed
\* block come out at one depth and the bodies one level deeper.
C24_KeywordBlockIndentation ==
  [][/\ vbPc = "indent" /\ vbSt' # vbSt
        => KeywordStep(vbSt.indent, Head(vbLines), vbSt'.indent,
                       vbSt'.out[Len(vbSt'.out)], LAMBDA low : FALSE)
     /\ vbPc' = "done" /\ vbIn = WellFormedIfElse
        => vbOut' = WellFormedIfElseIndented]_vars

\* C24 with the opener the counter does not follow: as above, but a line
\* that starts with "if " and has a statement after its Then is put out at
\* the counter and leaves it.
C24_KeywordBlocksButOneLineIfs ==
  [][/\ vbPc = "indent" /\ vbSt' # vbSt
        => KeywordStep(vbSt.indent, Head(vbLines), vbSt'.indent,
                       vbSt'.out[Len(vbSt'.out)], OneLineIf)
     /\ vbPc' = "done" /\ vbIn = WellFormedIfElse
        => vbOut' = WellFormedIfElseIndented]_vars

\* the loop has put out an Else one level above the body of an If that is
\* itself inside a block, and is back at the depth of that If
C24_Witness ==
  /\ vbPc = "indent" /\ vbSt.indent = 1 /\ Len(vbSt.out) >= 5
  /\ \E n \in 2..(Len(vbSt.out) - 1) :
       /\ StartsWith(Lower(vbSt.out[n]), <<" "," "," "," ","e","l","s","e">>)
       /\ LeadingBlanks(vbSt.out[n - 1]) = 8
       /\ LeadingBlanks(vbSt.out[n + 1]) = 8

\* the string literals of s, from the character after an opening '"' to the
\* character before the closing '"' that no backslash escapes, in lits, and
\* the characters outside of them, a literal standing as '"', in outside
RECURSIVE LiteralScan(_, _, _, _, _, _)
LiteralScan(s, n, in_str, esc, lits, outside) ==
  IF n > Len(s) THEN [lits |-> lits, outside |-> outside]
  ELSE IF in_str
  THEN IF ~esc /\ s[n] = "\""
       THEN LiteralScan(s, n + 1, FALSE, FALSE, lits, outside)
       ELSE LiteralScan(s, n + 1, TRUE, ~esc /\ s[n] = "\\",
                        [lits EXCEPT ![Len(lits)] = Append(@, s[n])], outside)
  ELSE IF s[n] = "\""
  THEN LiteralScan(s, n + 1, TRUE, FALSE, Append(lits, <<>>), Append(outside, "\""))
  ELSE LiteralScan(s, n + 1, FALSE, FALSE, lits, Append(outside, s[n]))

LiteralsOf(s) == LiteralScan(s, 1, FALSE, FALSE, <<>>, <<>>).lits

OutsideOf(s) == LiteralScan(s, 1, FALSE, FALSE, <<>>, <<>>).outside

\* no white space but single blanks between other characters
BlanksCollapsed(outside) ==
  /\ \A n \in 1..Len(outside) : IsSpace(outside[n]) => outside[n] = " "
  /\ \A n \in 1..(Len(outside) - 1) : ~(outside[n] = " " /\ outside[n + 1] = " ")
  /\ outside = <<>> \/ outside[Len(outside)] # " "

\* every line after its indentation has its white space collapsed outside
\* the string literals
LinesCollapsed(lines) ==
  \A n \in 1..Len(lines) : BlanksCollapsed(OutsideOf(LStrip(lines[n])))

\* no literal holds a brace, a semicolon or a line break
PlainLiterals(lits) ==
  \A n \in 1..Len(lits) : \A k \in 1..Len(lits[n]) :
    lits[n][k] \notin {"{", "}", ";", "\n", "\r"}

\* C25: in what the C# formatter returns for code whose string literals hold
\* no brace, semicolon or line break, every line has, outside the string
\* literals, single blanks for every run of white space and no white space
\* at its end, and the string literals hold the characters they hold in the
\* code, tabs and runs of blanks too.
C25_BlanksCollapsedOutsideStrings ==
  (csPc = "done" /\ PlainLiterals(LiteralsOf(csIn)) /\ Count(csIn, "\"") % 2 = 0)
    => /\ LinesCollapsed(Split(csOut, "\n"))
       /\ LiteralsOf(csOut) = LiteralsOf(csIn)

\* each line without the white space at its end
RightTrimmed(lines) == [n \in 1..Len(lines) |-> RStrip(lines[n])]

\* the lines that are not empty, each with whether an empty line follows it
WithGaps(lines) ==
  SelectSeq([n \in 1..Len(lines) |->
               <<lines[n], n < Len(lines) /\ lines[n + 1] = <<>> >>],
            LAMBDA p : p[1] # <<>>)

\* out is code with its white space normalized and nothing else: no tab, no
\* white space at the end of a line, no blank line after a blank line, none
\* at either end, and the other lines are those of code, four blanks for
\* every tab, with a blank line between two of them where code has some
WhitespaceNormalized(code, out) ==
  /\ \A n \in 1..Len(out) : Count(out[n], "\t") = 0
  /\ \A n \in 1..Len(out) : out[n] = <<>> \/ ~IsSpace(out[n][Len(out[n])])
  /\ \A n \in 1..(Len(out) - 1) : ~(out[n] = <<>> /\ out[n + 1] = <<>>)
  /\ out[1] # <<>> /\ out[Len(out)] # <<>>
  /\ WithGaps(out) = WithGaps(RightTrimmed(Split(TabsToSpaces(code), "\n")))

\* what pretty_print_code returned for the code and the language it got
Dispatched(code, language, out) ==
  IF normalize_code(code) = <<>> THEN out = <<>>
  ELSE IF Lower(Strip(OrEmpty(language))) \in CsSynonyms
  THEN out = pretty_print_csharp_braces(normalize_code(code))
  ELSE IF Lower(Strip(OrEmpty(language))) \in VbSynonyms
  THEN out = pretty_print_vb_blocks(normalize_code(code))
  ELSE WhitespaceNormalized(normalize_code(code), Split(out, "\n"))

\* C26: pretty_print_code returns the empty string for code that is empty or
\* blank, whatever the language; for other code it returns what the brace
\* formatter gives when the language, trimmed and in lower case, is a C#
\* synonym, what the keyword-block formatter gives when it is a VB synonym,
\* and for every other language, None and Unknown too, the code with its
\* white space normalized: tabs as blanks, lines right-trimmed, runs of
\* blank lines as one blank line.
C26_DispatchOnLanguage ==
  ppPc = "done" => Dispatched(ppCode, ppLang, ppOut)

\* a language that is no synonym got code with tabs and a run of blank
\* lines back with its white space normalized
C26_Witness ==
  /\ ppPc = "done" /\ ppLang # None
  /\ Lower(Strip(ppLang)) \notin CsSynonyms \cup VbSynonyms \cup {<<>>, Lower(Unknown)}
  /\ ppCode # None /\ Count(ppCode, "\t") > 0
  /\ Contains(ppCode, <<"\n","\n","\n">>)
  /\ ppOut # <<>> /\ ppOut # ppCode

\* C27: split_midline_vb_statements returns a line that holds one statement
\* as that one line: a statement that a keyword of the list introduces (End
\* Try, Select Case x, ElseIf c Then, Do While c) and a statement with the
\* letters of a keyword inside an identifier (xdim = 1, country = 1).
C27_SingleStatementsKept ==
  (scPc = "done" /\ scLoop = "midline" /\ scLine \in SingleStatements)
    => scOut = << scLine >>

\* the '{' less the '}' of the first n characters of s
RECURSIVE BraceDepth(_, _)
BraceDepth(s, n) ==
  IF n = 0 THEN 0
  ELSE BraceDepth(s, n - 1)
       + (IF s[n] = "{" THEN 1 ELSE IF s[n] = "}" THEN 0 - 1 ELSE 0)

\* every '}' closes a '{' before it and every '{' is closed
BracesBalanced(s) ==
  /\ \A n \in 1..Len(s) : BraceDepth(s, n) >= 0
  /\ BraceDepth(s, Len(s)) = 0

\* every line of text that is not blank starts with four blanks for every
\* '{' that the text before the line leaves open, a line that starts with
\* '}' with those it leaves open itself
IndentedByDepth(text, lines) ==
  \A n \in 1..Len(lines) :
    lines[n] # <<>> =>
      LeadingBlanks(lines[n]) =
        4 * (BraceDepth(Join(SubSeq(lines, 1, n - 1), <<"\n">>),
                        Len(Join(SubSeq(lines, 1, n - 1), <<"\n">>)))
             - (IF StartsWith(LStrip(lines[n]), <<"}">>) THEN 1 ELSE 0))

\* C28: for C# code whose braces are balanced and that holds no string
\* literal, every line the formatter returns that is not blank is indented
\* by four blanks for every '{' not yet closed before it, at every depth: a
\* line that starts with '}' stands at the depth of the line that opened the
\* block, and the statement after the '}' of an inner block stands where the
\* statements before that block stand.
C28_IndentIsBraceDepth ==
  (csPc = "done" /\ BracesBalanced(csIn) /\ Count(csIn, "\"") = 0)
    => IndentedByDepth(csOut, Split(csOut, "\n"))

\* the rows of process_table that are objects with XML that parses, by
\* their place in the batch
ParsedObjectRows ==
  {i \in 1..Len(bOut) :
     /\ bOut[i].exc # "skipped"
     /\ bIn[i][1] = <<"O">>
     /\ bIn[i][2] # None
     /\ ET_fromstring(bIn[i][2]).ok}

\* C29: for every row of type Object whose XML parses, run_details inserts
\* one row of object_code_stage_report per stage element of type Code, in
\* document order, whether or not the object has global code as well.
C29_OneRowPerCodeStage ==
  \A i \in ParsedObjectRows :
    bOut[i].rows
      = StageRows(ET_fromstring(bIn[i][2]).ev,
                  FindAllStages(ET_fromstring(bIn[i][2]).ev))

\* C30: once load_csv_to_sqlite has returned from a call with replace set,
\* the target table holds the rows of the CSV file, every row once and in
\* file order, whatever the chunk size and whatever the table held before.
C30_TableHoldsCsvRowsOnce ==
  (ldPc = "closed" /\ ldReplace) => ldTable = ldCsv

====
